---- MODULE Spec2Model ----
(***************************************************************************)
(* Population-balance crystallizer engine of PharmaPy                       *)
(* (src/PharmaPy/Crystallizers.py): construction, phase and kinetics        *)
(* attachment, solve_unit / retrieve_results, the state layout and the      *)
(* energy balances.                                                         *)
(*                                                                          *)
(* Real numbers are exact rationals <<n, d>> (d > 0, lowest terms), so that *)
(* scaling by a factor and dividing by it again is a round trip only where  *)
(* the code really inverts what it applied.                                 *)
(***************************************************************************)
EXTENDS Integers, Sequences, FiniteSets, TLC

\* ------------------------------------------------------------------ bounds
MaxCalls == 2
MaxRuntime == 2
MaxDelta == 1
MaxAssign == 3
MaxParams == 3
MaxParamVal == 2

\* ------------------------------------------------------- rational numbers
Abs(i) == IF i < 0 THEN -i ELSE i

RECURSIVE GCD(_, _)
GCD(a, b) == IF b = 0 THEN a ELSE GCD(b, a % b)

RNorm(n, d) ==
    LET g == GCD(Abs(n), Abs(d))
        s == IF d < 0 THEN -1 ELSE 1
    IN  <<(s * n) \div g, (s * d) \div g>>

R(i) == <<i, 1>>
RAdd(a, b) == RNorm(a[1] * b[2] + b[1] * a[2], a[2] * b[2])
RSub(a, b) == RNorm(a[1] * b[2] - b[1] * a[2], a[2] * b[2])
RMul(a, b) == RNorm(a[1] * b[1], a[2] * b[2])
RDiv(a, b) == RNorm(a[1] * b[2], a[2] * b[1])
RZero == R(0)

RECURSIVE IPow(_, _)
IPow(b, e) == IF e = 0 THEN 1 ELSE b * IPow(b, e - 1)

\* element-wise helpers on vectors (sequences of rationals)
VScale(v, c) == [i \in 1..Len(v) |-> RMul(v[i], c)]
VDiv(v, c) == [i \in 1..Len(v) |-> RDiv(v[i], c)]
VAddInt(v, k) == [i \in 1..Len(v) |-> RAdd(v[i], R(k))]
SubVec(v, a, b) == [i \in 1..(b - a + 1) |-> v[a + i - 1]]
Last(s) == s[Len(s)]

\* -------------------------------------------------- constructor arguments
Engines == {"BatchCryst", "MSMPR", "SemibatchCryst"}
Methods == {"moments", "1D-FVM", "fvm"}
KnownMethods == {"moments", "1D-FVM"}
JacTypes == {"None", "finite_diff", "AD", "analytical", "bogus"}
KnownJacTypes == {"None", "finite_diff", "AD", "analytical"}
TempControls == {"None", "law"}
Scales == {1, 2}
UHts == {1, 2}

Args == [engine : Engines, method : Methods, scale : Scales,
         isothermal : BOOLEAN, temp_control : TempControls,
         adiabatic : BOOLEAN, reset_states : BOOLEAN, jac_type : JacTypes,
         u_ht : UHts]

\* arguments of the crystallizer whose life Spec follows
LifeArgs == {a \in Args : a.u_ht = 1}

TargetInds == {0, 1}

\* ------------------------------------------------------------------ state
VARIABLES
    stage,          \* "new", "constructed" or "ctor_failed"
    args,           \* arguments given to the constructor
    target_ind,     \* self.target_ind
    jax_available,  \* whether `import jax` succeeds in this runtime
    np_backend,     \* _BaseCryst.np: "numpy" or "jax"
    isothermal,     \* self.isothermal
    states_uo,      \* self.states_uo
    elapsed_time,   \* self.elapsed_time
    timeProf, distribProf, wConcProf, tempProf, tempProfHt, volProf,
    scale_flag,     \* self.scale_flag
    assigned,       \* the value last assigned to the Phases property
    nassign,        \* number of assignments to the Phases property
    Phases,         \* self._Phases: [kind, items]
    Slurry,         \* self.Slurry: [set, Phases]
    kron_jtg,       \* self.kron_jtg
    Liquid_1,       \* liquid phase object: [mass_conc, vol, temp]
    Solid_1,        \* solid phase object: [moments, distrib, mass]
    KinInstance,    \* self._KinInstance: "None" or "kinetics"
    kin_params,     \* KinInstance.merge_params(): the full parameter vector
    mask_params,    \* self.mask_params: [given, mask]
    ind_maskpar,    \* self.ind_maskpar
    params_fixed,   \* self.params_fixed
    set_params_arg, \* vector last handed to KinInstance.set_params
    call,           \* the latest solve_unit call and what it returned
    ncalls,         \* number of solve_unit calls made
    sumRuntime,     \* sum of the runtimes of the calls that returned
    um,             \* latest evaluation of unit_model / energy_balances
    err             \* error raised by the latest operation ("" if none)

ctorVars == <<stage, args, target_ind, jax_available, np_backend, isothermal,
              states_uo>>
profVars == <<elapsed_time, timeProf, distribProf, wConcProf, tempProf,
              tempProfHt, volProf, scale_flag>>
attachVars == <<Phases, Slurry, kron_jtg>>
assignVars == <<assigned, nassign>>
phaseVars == <<Liquid_1, Solid_1>>
kinVars == <<KinInstance, kin_params, mask_params, ind_maskpar, params_fixed,
             set_params_arg>>
callVars == <<call, ncalls, sumRuntime>>
vars == <<ctorVars, profVars, attachVars, assignVars, phaseVars, kinVars, callVars, um,
          err>>

\* --------------------------------------------------------- phase objects
\* number of species held by a liquid phase object
NumSpecies(ph) == IF ph = "L3" THEN 3 ELSE 2
LiquidIds == {"L", "L3"}
SolidIds == {"S"}
PhaseIds == LiquidIds \cup SolidIds

NoPhases == [kind |-> "None", items |-> <<>>]
NoSlurry == [set |-> FALSE, Phases |-> <<>>]

\* values assigned to the Phases property
PhaseInputs ==
    {[kind |-> k, items |-> <<l, "S">>] : k \in {"list", "tuple"},
                                          l \in LiquidIds}
    \cup {[kind |-> "list", items |-> <<l>>] : l \in LiquidIds}
    \cup {[kind |-> "Slurry", items |-> <<l, "S">>] : l \in LiquidIds}
    \cup {[kind |-> "phase", items |-> <<p>>] : p \in PhaseIds}
    \cup {[kind |-> "foreign", items |-> <<"X">>],  \* object of another module
          [kind |-> "plain", items |-> <<"X">>]}    \* object without __module__

ValidPhaseKinds == {"list", "tuple", "Slurry", "phase"}

HasLiquid(items) == \E i \in 1..Len(items) : items[i] \in LiquidIds

\* first liquid among the phases of a slurry (classify_phases)
LiquidOf(items) ==
    items[CHOOSE i \in 1..Len(items) :
            /\ items[i] \in LiquidIds
            /\ \A j \in 1..(i - 1) : items[j] \notin LiquidIds]

\* np.zeros_like(mass_frac) with a one at target_ind (0-based)
Kronecker(n, tgt) == [i \in 1..n |-> IF i = tgt + 1 THEN 1 ELSE 0]

PhasesError_foreignAccepted(cur, inp) ==
    IF inp.kind \in {"list", "tuple", "Slurry"} THEN ""
    ELSE IF inp.kind = "plain" THEN "AttributeError"
    ELSE IF cur.kind = "tuple" THEN "AttributeError" ELSE ""

\* first branch chain of the Phases setter: the error it raises, if any
PhasesError(cur, inp) ==
    IF inp.kind \in {"list", "tuple", "Slurry"} THEN ""
    ELSE IF inp.kind = "plain" THEN "AttributeError"
    ELSE IF inp.kind = "phase"
         THEN IF cur.kind = "tuple" THEN "AttributeError" ELSE ""
    ELSE "RuntimeError"

\* first branch chain of the Phases setter: the new self._Phases
PhasesAssigned(cur, inp) ==
    IF inp.kind \in {"list", "tuple"} THEN inp
    ELSE IF inp.kind = "Slurry" THEN [kind |-> "list", items |-> inp.items]
    ELSE IF cur.kind = "None" THEN [kind |-> "list", items |-> inp.items]
    ELSE [kind |-> cur.kind, items |-> cur.items \o inp.items]

\* second part of the Phases setter: the new self.Slurry
SlurryAssigned(curSlurry, newPhases, inp) ==
    IF inp.kind = "Slurry" THEN [set |-> TRUE, Phases |-> inp.items]
    ELSE IF Len(newPhases.items) > 1
         THEN [set |-> TRUE, Phases |-> newPhases.items]
    ELSE curSlurry

\* third part of the Phases setter: the new self.kron_jtg
KronAssigned(curKron, newSlurry, tgt) ==
    IF newSlurry.set /\ HasLiquid(newSlurry.Phases)
    THEN Kronecker(NumSpecies(LiquidOf(newSlurry.Phases)), tgt)
    ELSE curKron

\* the Phases property setter as one step
SetPhases(inp) ==
    LET e == PhasesError(Phases, inp)
        p == PhasesAssigned(Phases, inp)
        s == SlurryAssigned(Slurry, p, inp)
    IN  /\ assigned' = inp
        /\ nassign' = nassign + 1
        /\ IF e # ""
           THEN /\ err' = e
                /\ UNCHANGED attachVars
           ELSE /\ Phases' = p
                /\ Slurry' = s
                /\ kron_jtg' = KronAssigned(kron_jtg, s, target_ind)
                \* a slurry without a liquid phase has no Liquid_1
                /\ err' = IF s.set /\ ~HasLiquid(s.Phases)
                          THEN "AttributeError" ELSE ""

\* ------------------------------------------------------ kinetics instance
NoMask == [given |-> FALSE, mask |-> <<>>]

\* 0-based positions where the mask has value b (np.where)
RECURSIVE Where(_, _, _)
Where(mask, b, i) ==
    IF i > Len(mask) THEN <<>>
    ELSE (IF mask[i] = b THEN <<i - 1>> ELSE <<>>) \o Where(mask, b, i + 1)

\* np.argsort: 0-based position of the i-th smallest entry
ArgSort(s) ==
    [i \in 1..Len(s) |->
        (CHOOSE j \in 1..Len(s) :
            Cardinality({k \in 1..Len(s) :
                \/ s[k] < s[j]
                \/ (s[k] = s[j] /\ k < j)}) = i - 1) - 1]

\* fancy indexing v[idx] with 0-based indexes
Take(v, idx) == [i \in 1..Len(idx) |-> v[idx[i] + 1]]

\* self.mask_params after the KinInstance setter
MaskResolved(given, nparams) ==
    IF given.given THEN given.mask ELSE [i \in 1..nparams |-> TRUE]

IndMaskpar(mask) == ArgSort(Where(mask, TRUE, 1) \o Where(mask, FALSE, 1))

ParamsFixed(mask, full) == Take(full, Where(mask, FALSE, 1))

\* the KinInstance property setter
SetKinInstance ==
    LET m == MaskResolved(mask_params, Len(kin_params))
    IN  /\ KinInstance' = "kinetics"
        /\ mask_params' = [given |-> TRUE, mask |-> m]
        /\ params_fixed' = ParamsFixed(m, kin_params)
        /\ ind_maskpar' = IndMaskpar(m)
        /\ UNCHANGED <<kin_params, set_params_arg>>

\* merged_params of solve_unit: the free parameters
MergedParams(mask, full) == Take(full, Where(mask, TRUE, 1))

\* "Prepare inputs" of unit_model: the vector handed to set_params
ParamsAll(params, fixed, perm) ==
    IF Len(fixed) > 1 THEN Take(params \o fixed, perm) ELSE params

\* ------------------------------------------------------------ constructor
Has(seq, x) == \E i \in 1..Len(seq) : seq[i] = x

\* BatchCryst.__init__ hands its own arguments to _BaseCryst.__init__;
\* MSMPR.__init__ (inherited by SemibatchCryst) evaluates the undefined
\* names KinInstance and Phases while building the argument list
CtorError(engine) == IF engine = "BatchCryst" THEN "" ELSE "NameError"

\* self.oper_mode and self.is_continuous as the __init__ bodies assign them
\* (SemibatchCryst inherits MSMPR.__init__); nothing is assigned when
\* __init__ raises
OperMode(engine, st) ==
    IF st # "constructed" THEN "unset"
    ELSE IF engine = "BatchCryst" THEN "Batch" ELSE "Continuous"

IsContinuous(engine, st) ==
    IF st # "constructed" THEN "unset"
    ELSE IF engine = "BatchCryst" THEN "False" ELSE "True"

\* _BaseCryst.__init__: `import jax.numpy as np` inside try / except: pass
NpBackend(jac_type, jax, cur) ==
    IF jac_type = "AD" /\ jax THEN "jax" ELSE cur

\* _BaseCryst.__init__: self.isothermal
BaseIsothermal(iso, tc) == IF tc # "None" THEN FALSE ELSE iso

\* _BaseCryst.__init__: self.states_uo (iso is self.isothermal)
BaseStatesUo(iso, tc) ==
    <<"mass_conc">> \o (IF ~iso /\ tc = "None" THEN <<"temp">> ELSE <<>>)

\* BatchCryst.__init__ after super().__init__, up to nomenclature()
BatchInitStatesUo(uo) == uo \o <<"conc_target", "vol">>

\* BatchCryst.nomenclature: what it appends to states_uo
BatchNomenclature(uo, iso, tc, method) ==
    uo \o (IF ~iso /\ tc = "None" THEN <<"temp">> ELSE <<>>)
       \o (IF method = "moments" THEN <<"moments">>
           ELSE IF method = "1D-FVM" THEN <<"total_distrib">>
           ELSE <<>>)

Construct ==
    /\ stage = "new"
    /\ LET e == CtorError(args.engine)
           iso == BaseIsothermal(args.isothermal, args.temp_control)
       IN  /\ err' = e
           /\ IF e # ""
              THEN /\ stage' = "ctor_failed"
                   /\ UNCHANGED <<np_backend, isothermal, states_uo>>
              ELSE /\ stage' = "constructed"
                   /\ np_backend' = NpBackend(args.jac_type, jax_available,
                                              np_backend)
                   /\ isothermal' = iso
                   /\ states_uo' = BatchNomenclature(
                          BatchInitStatesUo(
                              BaseStatesUo(iso, args.temp_control)),
                          iso, args.temp_control, args.method)
    /\ UNCHANGED <<args, target_ind, jax_available>>
    /\ UNCHANGED <<profVars, attachVars, assignVars, phaseVars, kinVars,
                   callVars, um>>

\* ------------------------------------------------- phases and collaborators
Kv == 1          \* Solid_1.kv
RhoSolid == 1    \* Solid_1.getDensity()
XGrid == <<1, 3, 5>>   \* Solid_1.x_distrib
Dx == 2          \* Slurry.dx

LiquidVols == {1, 2}
InitLiquid(v) == [mass_conc |-> <<R(3), R(1)>>, vol |-> R(v), temp |-> R(5)]
InitSolid == [moments |-> <<R(1), R(1), R(2), R(1)>>,
              distrib |-> <<R(2), R(1), R(1)>>, mass |-> R(1)]

\* Solid_1.getMoments(distrib, mom_num=k): trapezoidal rule of x^k f(x)
RECURSIVE Trapz(_, _, _)
Trapz(f, k, i) ==
    IF i >= Len(f) THEN RZero
    ELSE RAdd(RMul(RDiv(RAdd(RMul(R(IPow(XGrid[i], k)), f[i]),
                             RMul(R(IPow(XGrid[i + 1], k)), f[i + 1])),
                        R(2)),
                   R(XGrid[i + 1] - XGrid[i])),
              Trapz(f, k, i + 1))

GetMoments(distrib, k) == Trapz(distrib, k, 1)

\* Slurry.getTotalVol(): liquid volume plus solid volume
GetTotalVol(liq, sol) == RAdd(liq.vol, RDiv(sol.mass, R(RhoSolid)))

\* temp_control(time, temp, *params, t_zero): a ramp from temp
TempLaw(time, temp, t_zero) == RAdd(temp, R(time - t_zero))

\* -------------------------------------------------------------- solve_unit
\* "Solid phase states": init_solid before it is multiplied by the volume
InitSolidOf(method, sol, scale) ==
    IF method = "moments"
    THEN [k \in 1..Len(sol.moments) |->
            RMul(sol.moments[k], R(IPow(scale, k - 1)))]
    ELSE VScale(sol.distrib, R(scale))

\* init_solid *= vol_init  ("Total particle number")
TotalNumber(init_solid, vol_init) == VScale(init_solid, vol_init)

\* temperature blocks appended to states_init
TempBlocks(uo, temp) ==
    IF Has(uo, "temp_ht") THEN <<temp, temp>>
    ELSE IF Has(uo, "temp") THEN <<temp>>
    ELSE <<>>

\* states_init as assembled by solve_unit
StatesInit(method, uo, liq, sol, scale) ==
    LET scaled == InitSolidOf(method, sol, scale)
        vol_init == GetTotalVol(liq, sol)
    IN  IF Has(uo, "vol")
        THEN TotalNumber(scaled, vol_init) \o liq.mass_conc \o <<vol_init>>
             \o TempBlocks(uo, liq.temp)
        ELSE scaled \o liq.mass_conc \o TempBlocks(uo, liq.temp)

\* Solid_1.moments after the in-place `*=` of solve_unit (init_solid is the
\* same array object as Solid_1.moments)
MomentsAliased(method, uo, liq, sol, scale) ==
    IF method = "moments"
    THEN IF Has(uo, "vol")
         THEN TotalNumber(InitSolidOf(method, sol, scale),
                          GetTotalVol(liq, sol))
         ELSE InitSolidOf(method, sol, scale)
    ELSE sol.moments

FinalTime_ignoresElapsed(runtime, elapsed) == runtime

\* "Read time": final_time
FinalTime(runtime, elapsed) == runtime + elapsed

\* set_ode_problem: t0 of the Explicit_Problem
ProblemT0(elapsed) == elapsed

\* set_ode_problem: the error it raises, if any
SetOdeError(eval_sens, jac_type) ==
    IF eval_sens /\ jac_type \notin KnownJacTypes THEN "NameError" ELSE ""

\* errors raised by the callables the solver evaluates during integration
RhsError(a, uo, eval_sens) ==
    IF Has(uo, "temp") /\ ~Has(uo, "temp_ht") /\ ~a.adiabatic
    THEN "TypeError"         \* energy_balances: temp - temp_ht, temp_ht None
    ELSE IF eval_sens /\ a.jac_type = "AD"
    THEN "TypeError"         \* jac_states_ad takes no return_only argument
    ELSE IF eval_sens /\ a.jac_type = "analytical" /\ a.temp_control = "None"
    THEN "TypeError"         \* jac_params calls self.temp_control (None)
    ELSE ""

\* ---------------------------------------------------------- retrieve_results
Column(states, j) == [r \in 1..Len(states) |-> states[r][j]]

\* distribProf = states[:, :num_distr] / self.scale
DistribProfOf(states, nd, scale) ==
    [r \in 1..Len(states) |-> VDiv(SubVec(states[r], 1, nd), R(scale))]

\* self.volProf = states[:, num_distr + num_species]
VolProfOf(states, nd, ns) == Column(states, nd + ns + 1)

\* wConcProf = states[:, num_distr:num_distr + num_species]
WConcProfOf(states, nd, ns) ==
    [r \in 1..Len(states) |-> SubVec(states[r], nd + 1, nd + ns)]

\* the array appended to self.tempProf
TempProfOf(iso, tc, states, time, liq_temp, self_temp, elapsed) ==
    IF iso THEN [r \in 1..Len(time) |-> liq_temp]
    ELSE IF tc = "None" THEN Column(states, Len(states[1]) - 1)
    ELSE [r \in 1..Len(time) |-> TempLaw(time[r], self_temp, elapsed)]

\* the arrays appended to self.tempProfHt
TempProfHtOf(iso, tc, states) ==
    IF ~iso /\ tc = "None" THEN <<Column(states, Len(states[1]))>> ELSE <<>>

\* mu_3_final
Mu3Final(method, last_distrib) ==
    IF method = "moments" THEN last_distrib[4]
    ELSE GetMoments(last_distrib, 3)

\* the solid phase after retrieve_results
SolidRetrieved(method, sol, last_distrib) ==
    IF method = "moments"
    THEN [sol EXCEPT !.moments = last_distrib]
    ELSE [sol EXCEPT !.distrib = last_distrib,
                     !.mass = RMul(R(RhoSolid),
                                   RMul(Mu3Final(method, last_distrib),
                                        R(Kv)))]

\* the liquid phase after retrieve_results
LiquidRetrieved(iso, liq, last_conc, last_vol, last_temp) ==
    [mass_conc |-> last_conc, vol |-> last_vol,
     temp |-> IF iso THEN liq.temp ELSE last_temp]

ZeroFirstSample_skipped(sens) == sens

\* "Organize sensitivity": sens[0] = 0 for every parameter
ZeroFirstSample(sens) ==
    [r \in 1..Len(sens) |->
        IF r = 1 THEN [j \in 1..Len(sens[r]) |-> 0] ELSE sens[r]]

Sensit(p_sol) == [p \in 1..Len(p_sol) |-> ZeroFirstSample(p_sol[p])]

NoCall == [status |-> "none", runtime |-> 0, eval_sens |-> FALSE,
           built |-> FALSE, simulated |-> 0,
           prev_elapsed |-> 0, prev_returned |-> FALSE, prev_last |-> <<>>,
           t0 |-> 0, tf |-> 0, y0 |-> <<>>, time |-> <<>>, states |-> <<>>,
           p_sol |-> <<>>, sensit |-> <<>>]

\* what the external integrator returns: the time points and the trajectory
\* (first sample the initial state, last sample moved by d)
SolverTime(t0, tf) == <<t0, tf>>
SolverStates(y0, d) == <<y0, VAddInt(y0, d)>>
\* solver.p_sol: one matrix per free parameter; sv # 0 stands for the
\* artefacts (NaN) the integrator leaves in the first sample
SolverPSol(nfree, nrows, ncols, sv) ==
    [p \in 1..nfree |-> [r \in 1..nrows |-> [j \in 1..ncols |-> sv]]]

\* reset(): the profile attributes restored from __original_prof__ before
\* the loop over self.__original_phases__ (never assigned) raises
ResetError == "AttributeError"

SimulateCalls_retried(ok) == IF ok THEN 1 ELSE 2

\* "Solve model": the calls solve_unit makes into solver.simulate
SimulateCalls(ok) == 1

SolveUnit(runtime, eval_sens, d, sv, ok) ==
    /\ stage = "constructed"
    /\ Slurry.set
    /\ KinInstance # "None"
    /\ ncalls < MaxCalls
    /\ ncalls' = ncalls + 1
    /\ LET method == args.method
           nd == IF method = "moments" THEN Len(Solid_1.moments)
                 ELSE Len(Solid_1.distrib)
           ns == Len(Liquid_1.mass_conc)
           y0 == StatesInit(method, states_uo, Liquid_1, Solid_1,
                            args.scale)
           aliased == [Solid_1 EXCEPT !.moments =
                          MomentsAliased(method, states_uo, Liquid_1,
                                         Solid_1, args.scale)]
           t0 == ProblemT0(elapsed_time)
           tf == FinalTime(runtime, elapsed_time)
           free == MergedParams(mask_params.mask, kin_params)
           e3 == SetOdeError(eval_sens, args.jac_type)
           e4 == IF RhsError(args, states_uo, eval_sens) # ""
                 THEN RhsError(args, states_uo, eval_sens)
                 ELSE IF ~ok THEN "CVodeError" ELSE ""
           time == SolverTime(t0, tf)
           states == SolverStates(y0, d)
           p_sol == IF eval_sens
                    THEN SolverPSol(Len(free), Len(time), Len(y0), sv)
                    ELSE <<>>
           dProf == DistribProfOf(states, nd, args.scale)
           vProf == VolProfOf(states, nd, ns)
           wProf == WConcProfOf(states, nd, ns)
           tProf == TempProfOf(isothermal, args.temp_control, states, time,
                               Liquid_1.temp, Liquid_1.temp, elapsed_time)
           base == [NoCall EXCEPT
                       !.runtime = runtime, !.eval_sens = eval_sens,
                       !.prev_elapsed = elapsed_time,
                       !.prev_returned = (call.status = "returned"),
                       !.prev_last = IF call.status = "returned"
                                     THEN Last(call.states) ELSE <<>>]
       IN  IF method \notin KnownMethods
           THEN \* len(init_solid): init_solid was never bound
                /\ err' = "UnboundLocalError"
                /\ call' = [base EXCEPT !.status = "raised"]
                /\ UNCHANGED <<profVars, phaseVars, set_params_arg,
                               sumRuntime>>
           ELSE IF args.reset_states
           THEN /\ err' = ResetError
                /\ call' = [base EXCEPT !.status = "raised"]
                /\ elapsed_time' = 0
                /\ timeProf' = <<>>
                /\ distribProf' = <<>>
                /\ tempProf' = <<>>
                /\ scale_flag' = TRUE
                /\ Solid_1' = aliased
                /\ UNCHANGED <<wConcProf, tempProfHt, volProf, Liquid_1,
                               set_params_arg, sumRuntime>>
           ELSE IF e3 # ""
           THEN /\ err' = e3
                /\ call' = [base EXCEPT !.status = "raised"]
                /\ scale_flag' = FALSE
                /\ Solid_1' = aliased
                /\ UNCHANGED <<elapsed_time, timeProf, distribProf,
                               wConcProf, tempProf, tempProfHt, volProf,
                               Liquid_1, set_params_arg, sumRuntime>>
           ELSE IF e4 # ""
           THEN /\ err' = e4
                /\ call' = [base EXCEPT !.status = "raised", !.built = TRUE,
                               !.simulated = SimulateCalls(ok),
                               !.t0 = t0, !.tf = tf,
                               !.y0 = y0]
                /\ scale_flag' = FALSE
                /\ Solid_1' = aliased
                /\ set_params_arg' = ParamsAll(free, params_fixed,
                                               ind_maskpar)
                /\ UNCHANGED <<elapsed_time, timeProf, distribProf,
                               wConcProf, tempProf, tempProfHt, volProf,
                               Liquid_1, sumRuntime>>
           ELSE /\ err' = ""
                /\ call' = [base EXCEPT !.status = "returned",
                               !.built = TRUE,
                               !.simulated = SimulateCalls(ok),
                               !.t0 = t0, !.tf = tf, !.y0 = y0,
                               !.time = time, !.states = states,
                               !.p_sol = p_sol,
                               !.sensit = Sensit(p_sol)]
                /\ scale_flag' = FALSE
                /\ set_params_arg' = ParamsAll(free, params_fixed,
                                               ind_maskpar)
                /\ timeProf' = Append(timeProf, time)
                /\ distribProf' = Append(distribProf, dProf)
                /\ volProf' = vProf
                /\ wConcProf' = Append(wConcProf, wProf)
                /\ tempProf' = Append(tempProf, tProf)
                /\ tempProfHt' = tempProfHt
                       \o TempProfHtOf(isothermal, args.temp_control, states)
                /\ Liquid_1' = LiquidRetrieved(isothermal, Liquid_1,
                                   Last(wProf), Last(vProf), Last(tProf))
                /\ Solid_1' = SolidRetrieved(method, Solid_1, Last(dProf))
                /\ elapsed_time' = Last(time)
                /\ sumRuntime' = sumRuntime + runtime
    /\ UNCHANGED <<ctorVars, attachVars, assignVars, KinInstance,
                   kin_params, mask_params, ind_maskpar, params_fixed, um>>

\* ------------------------------------------------- life of one crystallizer
NoUm == [kind |-> "none"]

AttachPhases ==
    /\ stage = "constructed"
    /\ Phases.kind = "None"
    /\ SetPhases([kind |-> "list", items |-> <<"L", "S">>])
    /\ UNCHANGED <<ctorVars, profVars, phaseVars, kinVars, callVars, um>>

AttachKinetics ==
    /\ stage = "constructed"
    /\ KinInstance = "None"
    /\ SetKinInstance
    /\ err' = ""
    /\ UNCHANGED <<ctorVars, profVars, attachVars, assignVars, phaseVars,
                   callVars, um>>

Solve ==
    \E runtime \in 1..MaxRuntime, eval_sens \in BOOLEAN, d \in 0..MaxDelta,
       sv \in {0, 1}, ok \in BOOLEAN :
        SolveUnit(runtime, eval_sens, d, sv, ok)

\* a crystallizer not yet constructed
NewObject ==
    /\ stage = "new"
    /\ np_backend = "numpy"
    /\ isothermal = FALSE
    /\ states_uo = <<>>

InitCommon ==
    /\ elapsed_time = 0
    /\ timeProf = <<>> /\ distribProf = <<>> /\ wConcProf = <<>>
    /\ tempProf = <<>> /\ tempProfHt = <<>> /\ volProf = <<>>
    /\ scale_flag = TRUE
    /\ Phases = NoPhases /\ Slurry = NoSlurry /\ kron_jtg = <<>>
    /\ assigned = NoPhases /\ nassign = 0
    /\ Solid_1 = InitSolid
    /\ KinInstance = "None"
    /\ ind_maskpar = <<>> /\ params_fixed = <<>>
    /\ set_params_arg = <<>>
    /\ call = NoCall /\ ncalls = 0 /\ sumRuntime = 0
    /\ um = NoUm
    /\ err = ""

Init ==
    /\ InitCommon
    /\ NewObject
    /\ args \in LifeArgs
    /\ target_ind = 0
    /\ mask_params = NoMask
    /\ jax_available \in (IF args.jac_type = "AD" THEN BOOLEAN ELSE {TRUE})
    /\ \E v \in LiquidVols : Liquid_1 = InitLiquid(v)
    /\ kin_params = <<1, 2>>

Next == Construct \/ AttachPhases \/ AttachKinetics \/ Solve

Spec == Init /\ [][Next]_vars

\* ------------------------------------- assignments to the Phases property
DefaultArgs == [engine |-> "BatchCryst", method |-> "1D-FVM", scale |-> 1,
                isothermal |-> FALSE, temp_control |-> "None",
                adiabatic |-> FALSE, reset_states |-> FALSE,
                jac_type |-> "None", u_ht |-> 1]

AssignPhases ==
    /\ stage = "constructed"
    /\ nassign < MaxAssign
    /\ \E inp \in PhaseInputs : SetPhases(inp)
    /\ UNCHANGED <<ctorVars, profVars, phaseVars, kinVars, callVars, um>>

InitPhases ==
    /\ InitCommon
    /\ NewObject
    /\ args = DefaultArgs
    /\ target_ind \in TargetInds
    /\ jax_available = TRUE
    /\ Liquid_1 = InitLiquid(1)
    /\ kin_params = <<1, 2>>
    /\ mask_params = NoMask

NextPhases == Construct \/ AssignPhases

SpecPhases == InitPhases /\ [][NextPhases]_vars

\* --------------------------------------------- parameter mask and ordering
ParamVals == 1..MaxParamVal
\* values the caller (or the integrator) supplies for the free parameters
FreeVals == (MaxParamVal + 1)..(2 * MaxParamVal)

Masks(n) == {NoMask} \cup {[given |-> TRUE, mask |-> m] :
                              m \in [1..n -> BOOLEAN]}

\* first statements of unit_model: the kinetics receive params_all
UnitModelParams ==
    /\ stage = "constructed"
    /\ KinInstance # "None"
    /\ um.kind = "none"
    /\ \E params \in [1..Len(Where(mask_params.mask, TRUE, 1)) -> FreeVals] :
         /\ set_params_arg' = ParamsAll(params, params_fixed, ind_maskpar)
         /\ um' = [kind |-> "params", params |-> params]
    /\ err' = ""
    /\ UNCHANGED <<ctorVars, profVars, attachVars, assignVars, phaseVars,
                   KinInstance, kin_params, mask_params, ind_maskpar,
                   params_fixed, callVars>>

InitMask ==
    /\ InitCommon
    /\ NewObject
    /\ args = DefaultArgs
    /\ target_ind = 0
    /\ jax_available = TRUE
    /\ Liquid_1 = InitLiquid(1)
    /\ \E n \in 1..MaxParams :
         /\ kin_params \in [1..n -> ParamVals]
         /\ mask_params \in Masks(n)

NextMask == Construct \/ AttachKinetics \/ UnitModelParams

SpecMask == InitMask /\ [][NextMask]_vars

\* ------------------------------------------- state layout of every engine
\* MSMPR.__init__ after super().__init__, up to nomenclature()
MSMPRInitStatesUo(uo) == uo \o <<"conc_j">>

\* MSMPR.nomenclature: what it appends to states_uo
MSMPRNomenclature(uo, iso, adiabatic, method) ==
    uo \o (IF ~iso THEN <<"temp", "temp_ht">>
           ELSE IF adiabatic THEN <<"temp">>
           ELSE <<>>)
       \o (IF method = "moments" THEN <<"moments">>
           ELSE IF method = "1D-FVM" THEN <<"num_distrib">>
           ELSE <<>>)

\* SemibatchCryst.nomenclature: what it appends to states_uo (with the
\* moment method it stops at self.num_mom, which no statement assigns)
SemibatchNomenclature(uo, method) ==
    uo \o <<"vol">>
       \o (IF method = "1D-FVM" THEN <<"total_distrib">> ELSE <<>>)

SemibatchNomenclatureError(method) ==
    IF method = "moments" THEN "AttributeError" ELSE ""

\* states_uo computed by the body of an engine's __init__ and its
\* nomenclature() from the configuration
StatesUoOf(a) ==
    LET iso == BaseIsothermal(a.isothermal, a.temp_control)
        base == BaseStatesUo(iso, a.temp_control)
    IN  IF a.engine = "BatchCryst"
        THEN BatchNomenclature(BatchInitStatesUo(base), iso, a.temp_control,
                               a.method)
        ELSE IF a.engine = "MSMPR"
        THEN MSMPRNomenclature(MSMPRInitStatesUo(base), iso, a.adiabatic,
                               a.method)
        ELSE SemibatchNomenclature(MSMPRInitStatesUo(base), a.method)

\* unit_model, "Check for temperature": where the temperature comes from
TempSource(uo, tc) ==
    IF Has(uo, "temp_ht") THEN "states_ht"
    ELSE IF Has(uo, "temp") THEN "states"
    ELSE IF tc # "None" THEN "temp_control"
    ELSE "Liquid_1"

\* ---------------------------------------------------------- energy balances
DhCryst == -14600   \* dh_cryst, J/kg
NoTempHt == [some |-> FALSE, val |-> RZero]

\* quantities the energy balances read: the jacket temperature (None when
\* there is no jacket state), the crystallization rate and the properties
\* supplied by the phases, the inlet and the geometry
EnergyInputs ==
    [u_ht : {R(u) : u \in UHts}, temp : {R(5), R(6)},
     temp_ht : {NoTempHt, [some |-> TRUE, val |-> R(4)],
                [some |-> TRUE, val |-> R(5)]},
     cryst_rate : {R(0), R(1)}, area_ht : {R(1)}, vol : {R(2)},
     capacitance : {R(3)}, input_flow : {R(1)}, h_in : {R(7)},
     h_sp : {R(5)}, dens_in_liq : {R(1)}, dens_slurry : {R(2)}]

\* the error an energy balance raises on `temp - temp_ht` with temp_ht None
EnergyError(engine, adiabatic, in) ==
    IF in.temp_ht.some THEN ""
    ELSE IF engine = "MSMPR" THEN "TypeError"
    ELSE IF adiabatic THEN "" ELSE "TypeError"

BatchHtTerm_alwaysJacket(adiabatic, in) ==
    RMul(RMul(in.u_ht, in.area_ht), RSub(in.temp, in.temp_ht.val))

\* BatchCryst.energy_balances / SemibatchCryst.energy_balances: ht_term
BatchHtTerm(adiabatic, in) ==
    IF adiabatic THEN RZero
    ELSE RMul(RMul(in.u_ht, in.area_ht), RSub(in.temp, in.temp_ht.val))

\* MSMPR.energy_balances: ht_term
MSMPRHtTerm(adiabatic, in) ==
    RMul(RMul(in.u_ht, in.area_ht), RSub(in.temp, in.temp_ht.val))

HtTerm(engine, adiabatic, in) ==
    IF engine = "MSMPR" THEN MSMPRHtTerm(adiabatic, in)
    ELSE BatchHtTerm(adiabatic, in)

\* BatchCryst.energy_balances: dtemp_dt
BatchDtemp(adiabatic, in) ==
    LET source_term == RMul(R(DhCryst), in.cryst_rate)
    IN  RDiv(RDiv(RSub(RSub(RZero, source_term),
                       BatchHtTerm(adiabatic, in)),
                  in.capacitance), in.vol)

\* MSMPR.energy_balances: dtemp_dt
MSMPRDtemp(adiabatic, in) ==
    LET flow_term == RMul(in.input_flow, RSub(in.h_in, in.h_sp))
        source_term == RMul(RMul(R(DhCryst), in.cryst_rate), in.vol)
    IN  RDiv(RDiv(RSub(RSub(flow_term, source_term),
                       MSMPRHtTerm(adiabatic, in)),
                  in.vol), in.capacitance)

\* SemibatchCryst.energy_balances: dtemp_dt
SemibatchDtemp(adiabatic, in) ==
    LET dmass_dt == RMul(in.input_flow, in.dens_in_liq)
        accum_term == RDiv(RMul(dmass_dt, in.h_sp), in.dens_slurry)
        flow_term == RMul(in.input_flow, in.h_in)
        source_term == RMul(R(DhCryst), in.cryst_rate)
    IN  RDiv(RDiv(RSub(RSub(RSub(flow_term, source_term),
                            BatchHtTerm(adiabatic, in)),
                       accum_term),
                  in.capacitance), in.vol)

Dtemp(engine, adiabatic, in) ==
    IF engine = "BatchCryst" THEN BatchDtemp(adiabatic, in)
    ELSE IF engine = "MSMPR" THEN MSMPRDtemp(adiabatic, in)
    ELSE SemibatchDtemp(adiabatic, in)

\* ----------------------------- layout and balances over all configurations
\* the body of the engine's __init__ and nomenclature() on one configuration
LayoutNomenclature ==
    /\ stage = "new"
    /\ LET e == IF args.engine = "SemibatchCryst"
                THEN SemibatchNomenclatureError(args.method) ELSE ""
       IN  /\ err' = e
           /\ stage' = IF e = "" THEN "layout" ELSE "ctor_failed"
           /\ isothermal' = BaseIsothermal(args.isothermal,
                                           args.temp_control)
           /\ states_uo' = StatesUoOf(args)
    /\ UNCHANGED <<args, target_ind, jax_available, np_backend>>
    /\ UNCHANGED <<profVars, attachVars, assignVars, phaseVars, kinVars,
                   callVars, um>>

\* solve_unit assembling states_init for the layout
LayoutStatesInit ==
    /\ stage = "layout"
    /\ args.method \in KnownMethods
    /\ um' = [kind |-> "states_init",
              y0 |-> StatesInit(args.method, states_uo, Liquid_1, Solid_1,
                                args.scale),
              blocks |-> TempBlocks(states_uo, Liquid_1.temp)]
    /\ err' = ""
    /\ UNCHANGED <<ctorVars, profVars, attachVars, assignVars, phaseVars,
                   kinVars, callVars>>

\* retrieve_results leaving a later elapsed_time
LayoutElapse ==
    /\ stage = "layout"
    /\ elapsed_time < MaxRuntime
    /\ elapsed_time' = elapsed_time + 1
    /\ err' = ""
    /\ UNCHANGED <<ctorVars, timeProf, distribProf, wConcProf, tempProf,
                   tempProfHt, volProf, scale_flag, attachVars, assignVars,
                   phaseVars, kinVars, callVars, um>>

\* one evaluation of unit_model: the temperature it uses and, when the
\* layout holds a temperature, the energy balance
LayoutUnitModel ==
    /\ stage = "layout"
    /\ \E dt \in 0..MaxRuntime, in \in EnergyInputs :
         LET src == TempSource(states_uo, args.temp_control)
             time == elapsed_time + dt
             called == Has(states_uo, "temp")
             e == IF called
                  THEN EnergyError(args.engine, args.adiabatic, in) ELSE ""
         IN  /\ in.u_ht = R(args.u_ht)
             /\ in.temp_ht.some = (src = "states_ht")
             /\ src = "Liquid_1" => in.temp = Liquid_1.temp
             /\ src = "temp_control" =>
                    in.temp = TempLaw(time, Liquid_1.temp, elapsed_time)
             /\ ~called => in.cryst_rate = RZero
             /\ um' = [kind |-> "unit_model", time |-> time, src |-> src,
                       t_zero |-> IF src = "temp_control"
                                  THEN elapsed_time ELSE 0,
                       in |-> in, energy_called |-> called,
                       energy_err |-> e,
                       ht_term |-> IF called /\ e = ""
                                   THEN HtTerm(args.engine, args.adiabatic,
                                               in)
                                   ELSE RZero,
                       dtemp_dt |-> IF called /\ e = ""
                                    THEN Dtemp(args.engine, args.adiabatic,
                                               in)
                                    ELSE RZero]
             /\ err' = e
    /\ UNCHANGED <<ctorVars, profVars, attachVars, assignVars, phaseVars,
                   kinVars, callVars>>

LayoutArgs == {a \in Args : /\ a.scale = 1 /\ ~a.reset_states
                            /\ a.jac_type = "None"}

InitLayout ==
    /\ InitCommon
    /\ NewObject
    /\ args \in LayoutArgs
    /\ target_ind = 0
    /\ jax_available = TRUE
    /\ Liquid_1 = InitLiquid(1)
    /\ kin_params = <<1, 2>>
    /\ mask_params = NoMask

NextLayout ==
    LayoutNomenclature \/ LayoutStatesInit \/ LayoutElapse
        \/ LayoutUnitModel

SpecLayout == InitLayout /\ [][NextLayout]_vars

\* -------------------------------------------------- discretization methods
\* order and further helpers on rationals
RLt(a, b) == a[1] * b[2] < b[1] * a[2]
RLe(a, b) == a[1] * b[2] <= b[1] * a[2]
RAbs(a) == <<Abs(a[1]), a[2]>>
RNeg(a) == <<-a[1], a[2]>>
RPow(a, k) == <<IPow(a[1], k), IPow(a[2], k)>>
RHalf == <<1, 2>>

RECURSIVE RSum(_, _)
\* np.sum, over the least common denominator
RSum(v, i) ==
    IF i > Len(v) THEN RZero
    ELSE LET a == v[i]
             b == RSum(v, i + 1)
             g == GCD(a[2], b[2])
         IN  RNorm(a[1] * (b[2] \div g) + b[1] * (a[2] \div g),
                   (a[2] \div g) * b[2])

\* np.diff
Diff(v) == [i \in 1..(Len(v) - 1) |-> RSub(v[i + 1], v[i])]

\* the size-unit scale 1e-6 and the machine epsilon eps, held as small
\* rationals so that every product stays within the integers of the checker;
\* only their being positive and different from 1 is used
MicroUnit == <<1, 2>>
Eps == <<1, 64>>

RhoLiquid == 2   \* Liquid_1.getDensity() / first entry of Slurry.getDensity()

\* what KinInstance.get_kinetics and alpha_fn return for one state:
\* nucleation, growth (>= 0), dissolution (<= 0) and the impurity factor
KinOutputs ==
    {[nucl |-> R(b), growth |-> R(g), dissol |-> R(d), alpha |-> a] :
        b \in {0, 1}, g \in {0, 1, 2}, d \in {0, -1}, a \in {R(1), RHalf}}

\* growth or dissolution, never both
Admissible(kin) == kin.growth = RZero \/ kin.dissol = RZero

\* method_of_moments: mu[3] and mu[2] are read whatever the length of mu
MomentsError(mu) == IF Len(mu) < 4 THEN "IndexError" ELSE ""

DmuDt_noNucleusSize(mu, kin, rad, vol) ==
    LET gd == RAdd(RMul(kin.growth, kin.alpha), kin.dissol)
    IN  <<RMul(kin.nucl, vol)>>
        \o [k \in 1..(Len(mu) - 1) |-> RMul(RMul(R(k), gd), mu[k])]

\* method_of_moments: dmu_dt
DmuDt(mu, kin, rad, vol) ==
    LET gd == RAdd(RMul(kin.growth, kin.alpha), kin.dissol)
    IN  <<RMul(kin.nucl, vol)>>
        \o [k \in 1..(Len(mu) - 1) |->
               RAdd(RMul(RMul(R(k), gd), mu[k]),
                    RMul(kin.nucl, R(IPow(rad, k))))]

\* method_of_moments / fvm_method: the mass-transfer rate (nucl as the
\* caller holds it: raw for the moments, scaled for the finite volumes)
MassTransf(mu_2, nucl, kin, rad, rho_cry) ==
    LET gd == RAdd(RMul(kin.growth, kin.alpha), kin.dissol)
    IN  RMul(RMul(RMul(R(rho_cry), R(Kv)),
                  RAdd(RMul(RMul(R(3), gd), mu_2),
                       RMul(nucl, R(IPow(rad, 3))))),
             RPow(MicroUnit, 3))

MethodOfMoments(mu, kin, rad, rho_cry, vol) ==
    [dmu_dt |-> DmuDt(mu, kin, rad, vol),
     mass_transf |-> MassTransf(mu[3], kin.nucl, kin, rad, rho_cry)]

VanLeer_signLost(theta) ==
    RDiv(RAdd(theta, theta), RAdd(R(1), RAbs(theta)))

\* fvm_method, "Van-Leer limiter"
VanLeer(theta) ==
    RDiv(RAdd(RAbs(theta), theta), RAdd(R(1), RAbs(theta)))

\* fvm_method: f_diff of the ghost-padded densities
FDiff(csd) == Diff(<<csd[1]>> \o csd \o <<Last(csd)>>)

\* fvm_method: what the upwind ratio theta divides by, cell by cell
ThetaDenominators(csd, growth) ==
    LET fd == FDiff(csd)
    IN  [j \in 1..Len(csd) |->
            IF RLt(RZero, growth) THEN RAdd(fd[j + 1], Eps)
            ELSE RAdd(fd[j], Eps)]

\* fvm_method: the upwind ratio theta, by the sign of the growth rate
Theta(csd, growth) ==
    LET fd == FDiff(csd)
    IN  [j \in 1..Len(csd) |->
            IF RLt(RZero, growth)
            THEN RDiv(RAdd(fd[j], Eps), RAdd(fd[j + 1], Eps))
            ELSE RDiv(RAdd(fd[j + 1], Eps), RAdd(fd[j], Eps))]

Flux_openTop(csd, kin, scale, vol) ==
    LET growth == RMul(kin.growth, kin.alpha)
    IN  <<RMul(RMul(kin.nucl, R(scale)), vol)>>
        \o [i \in 1..Len(csd) |->
               RAdd(RMul(growth, csd[i]),
                    RMul(kin.dissol, csd[i]))]

\* fvm_method: the face fluxes
Flux(csd, kin, scale, vol) ==
    LET growth == RMul(kin.growth, kin.alpha)
        fd == FDiff(csd)
        limiter == [j \in 1..Len(csd) |-> VanLeer(Theta(csd, growth)[j])]
        growth_term == [i \in 1..(Len(csd) - 1) |->
            RMul(growth, RAdd(csd[i],
                              RMul(RMul(RHalf, limiter[i]), fd[i + 1])))]
        dissol_term == [i \in 1..(Len(csd) - 1) |->
            RMul(kin.dissol,
                 RSub(csd[i + 1],
                      RMul(RMul(RHalf, limiter[i + 1]), fd[i + 1])))]
    IN  <<RMul(RMul(kin.nucl, R(scale)), vol)>>
        \o [i \in 1..(Len(csd) - 1) |->
               RAdd(growth_term[i], dissol_term[i])]
        \o <<RZero>>

\* fvm_method: dcsd_dt = -np.diff(flux) / self.dx
DcsdDt(flux) == [i \in 1..(Len(flux) - 1) |->
                    RDiv(RNeg(RSub(flux[i + 1], flux[i])), R(Dx))]

FvmMethod(csd, moms, kin, rad, rho_cry, scale, vol) ==
    LET flux == Flux(csd, kin, scale, vol)
    IN  [flux |-> flux,
         theta |-> Theta(csd, RMul(kin.growth, kin.alpha)),
         dcsd_dt |-> DcsdDt(flux),
         mass_transf |-> MassTransf(moms[1],
                                    RMul(RMul(kin.nucl, R(scale)), vol),
                                    kin, rad, rho_cry)]

\* unit_model: moms handed to the balances
UnitMoms(method, distr, scale) ==
    IF method = "moments"
    THEN <<RMul(distr[3], RPow(MicroUnit, 2)),
           RMul(distr[4], RPow(MicroUnit, 3))>>
    ELSE <<GetMoments(VDiv(distr, R(scale)), 2),
           GetMoments(VDiv(distr, R(scale)), 3)>>

\* ------------------------------------------------------- material balances
\* BatchCryst.material_balances
\* BatchCryst.material_balances: what -transf and w_conc are divided by
BatchMaterialDenominators(vol_liq) == <<R(RhoLiquid), vol_liq>>

BatchMaterial(method, distrib, w_conc, vol_liq, kin, rad, moms, kron, scale) ==
    LET vol_solid == RMul(moms[2], R(Kv))
        vol_slurry == RAdd(vol_liq, vol_solid)
        ddistr_dt == IF method = "moments"
                     THEN MethodOfMoments(distrib, kin, rad, RhoSolid,
                                          vol_slurry).dmu_dt
                     ELSE FvmMethod(distrib, moms, kin, rad, RhoSolid,
                                    scale, vol_slurry).dcsd_dt
        transf == IF method = "moments"
                  THEN MethodOfMoments(distrib, kin, rad, RhoSolid,
                                       vol_slurry).mass_transf
                  ELSE FvmMethod(distrib, moms, kin, rad, RhoSolid,
                                 scale, vol_slurry).mass_transf
        dvol_liq == RDiv(RNeg(transf), R(RhoLiquid))
        dcomp_dt == [j \in 1..Len(w_conc) |->
            RMul(RDiv(RNeg(transf), vol_liq),
                 RSub(R(kron[j]), RDiv(w_conc[j], R(RhoLiquid))))]
    IN  [ddistr_dt |-> ddistr_dt, dcomp_dt |-> dcomp_dt,
         dvol_liq |-> dvol_liq, transf |-> transf,
         vol_solid |-> vol_solid]

\* the inlet as get_inputs and unit_model see it: a liquid stream carries
\* no particles (num_distrib is zeros_like(x_distrib), phis_in = [1, 0]); a
\* slurry stream carries its distribution (phi_in = 1 - kv * mom_in)
PhiIn(inlet) ==
    IF inlet.kind = "slurry"
    THEN RSub(R(1), RMul(R(Kv), GetMoments(inlet.num_distrib, 3)))
    ELSE R(1)

\* MSMPR.material_balances: the error raised by input_distrib - distrib
\* when the two arrays differ in length
MSMPRMaterialError(distrib, inlet) ==
    IF Len(inlet.num_distrib) # Len(distrib) THEN "ValueError" ELSE ""

\* MSMPR.material_balances
MSMPRMaterial(method, distrib, w_conc, vol, kin, rad, moms, kron, scale, inlet) ==
    LET input_distrib == VScale(inlet.num_distrib, R(scale))
        cryst_distr == IF method = "moments"
                       THEN MethodOfMoments(distrib, kin, rad, RhoSolid,
                                            R(1)).dmu_dt
                       ELSE FvmMethod(distrib, moms, kin, rad, RhoSolid,
                                      scale, R(1)).dcsd_dt
        transf == IF method = "moments"
                  THEN MethodOfMoments(distrib, kin, rad, RhoSolid,
                                       R(1)).mass_transf
                  ELSE FvmMethod(distrib, moms, kin, rad, RhoSolid,
                                 scale, R(1)).mass_transf
        tau_inv == RDiv(inlet.vol_flow, vol)
        flow_distrib == [i \in 1..Len(distrib) |->
            RMul(tau_inv, RSub(input_distrib[i], distrib[i]))]
        phi == RSub(R(1), RMul(R(Kv), moms[2]))
        flow_term == [j \in 1..Len(w_conc) |->
            RMul(tau_inv, RSub(RMul(inlet.mass_conc[j], PhiIn(inlet)),
                               RMul(w_conc[j], phi)))]
        transf_term == [j \in 1..Len(w_conc) |->
            RMul(transf, RSub(R(kron[j]),
                              RDiv(w_conc[j], R(RhoSolid))))]
    IN  [cryst_distr |-> cryst_distr,
         flow_distrib |-> flow_distrib,
         ddistr_dt |-> [i \in 1..Len(distrib) |->
                           RAdd(cryst_distr[i], flow_distrib[i])],
         flow_term |-> flow_term,
         transf_term |-> transf_term,
         dcomp_dt |-> [j \in 1..Len(w_conc) |->
                          RMul(RDiv(R(1), phi),
                               RSub(flow_term[j], transf_term[j]))],
         transf |-> transf]

\* ---------------------------------------------- unit_model of the Batch engine
\* the quantities BatchCryst.energy_balances reads, as unit_model hands them
BatchEnergyIn(a, temp, vol_liq, cryst_rate) ==
    [u_ht |-> R(a.u_ht), temp |-> temp, temp_ht |-> NoTempHt,
     cryst_rate |-> cryst_rate, area_ht |-> R(1), vol |-> vol_liq,
     capacitance |-> R(3), input_flow |-> RZero, h_in |-> RZero,
     h_sp |-> RZero, dens_in_liq |-> R(1), dens_slurry |-> R(2)]

\* unit_model of a BatchCryst: the error it raises, if any
BatchRhsError(a, uo, nd) ==
    IF a.method = "moments" /\ nd < 4 THEN "IndexError"
    ELSE IF Has(uo, "temp") /\ ~a.adiabatic THEN "TypeError"
    ELSE ""

\* unit_model of a BatchCryst: balances
BatchRhs(a, uo, states, nd, ns, kin, rad, kron) ==
    LET distr == SubVec(states, 1, nd)
        w_conc == SubVec(states, nd + 1, nd + ns)
        vol == states[nd + ns + 1]
        temp == IF Has(uo, "temp") THEN states[nd + ns + 2] ELSE RZero
        moms == UnitMoms(a.method, distr, a.scale)
        mat == BatchMaterial(a.method, distr, w_conc, vol, kin, rad, moms,
                             kron, a.scale)
    IN  mat.ddistr_dt \o mat.dcomp_dt \o <<mat.dvol_liq>>
        \o (IF Has(uo, "temp")
            THEN <<BatchDtemp(a.adiabatic,
                              BatchEnergyIn(a, temp, vol, mat.transf))>>
            ELSE <<>>)

\* --------------------------------- right-hand sides over bounded input sets
MaxMom == 5
MaxDensity == 2
MaxTheta == 4

NumCells == Len(XGrid)
Rads == {0, 1}       \* self.rad (rad_zero)

\* moment vectors of every length up to MaxMom
MuInputs == {[k \in 1..n |-> R((k * v + 1) % 3)] :
                n \in 1..MaxMom, v \in 1..2}

\* cell densities on the grid
CsdInputs == [1..NumCells -> {R(v) : v \in 0..MaxDensity}]

\* the kinetics outputs the right-hand sides are evaluated with
RhsKin == {k \in KinOutputs :
              /\ RLe(k.growth, R(1))
              /\ (k.growth = RZero => k.alpha = R(1))}

\* moments of a density as Solid_1 holds them, in the working scale
MomentsOf(f, scale) ==
    [k \in 1..4 |-> RMul(GetMoments(f, k - 1), R(IPow(scale, k - 1)))]

Thetas == {RNorm(n, d) : n \in (-MaxTheta)..MaxTheta, d \in 1..3}

RhsArgs ==
    {a \in Args :
        /\ a.engine \in {"BatchCryst", "MSMPR"}
        /\ a.method \in KnownMethods
        /\ ~a.reset_states /\ a.jac_type = "None" /\ a.u_ht = 1
        /\ (a.isothermal => (a.temp_control = "None" /\ ~a.adiabatic))
        /\ (a.temp_control # "None" => ~a.adiabatic)}

RhsUnchanged ==
    UNCHANGED <<ctorVars, profVars, attachVars, assignVars, phaseVars,
                kinVars, callVars>>

\* one call of method_of_moments
EvalMoments ==
    /\ stage = "layout" /\ um.kind = "none"
    /\ args.method = "moments"
    /\ \E mu \in MuInputs, kin \in RhsKin, rad \in Rads, v \in LiquidVols :
         LET e == MomentsError(mu)
         IN  /\ um' = [kind |-> "moments", mu |-> mu, kin |-> kin,
                       rad |-> rad, vol |-> R(v), err |-> e,
                       out |-> IF e = ""
                               THEN MethodOfMoments(mu, kin, rad, RhoSolid,
                                                    R(v))
                               ELSE [dmu_dt |-> <<>>,
                                     mass_transf |-> RZero]]
             /\ err' = e
    /\ RhsUnchanged

\* one call of fvm_method
EvalFvm ==
    /\ stage = "layout" /\ um.kind = "none"
    /\ args.method = "1D-FVM"
    /\ \E f \in CsdInputs, kin \in RhsKin, rad \in Rads, v \in LiquidVols :
         LET csd == VScale(f, R(args.scale))
             moms == UnitMoms(args.method, csd, args.scale)
         IN  um' = [kind |-> "fvm", csd |-> csd, kin |-> kin, rad |-> rad,
                    vol |-> R(v),
                    out |-> FvmMethod(csd, moms, kin, rad, RhoSolid,
                                      args.scale, R(v))]
    /\ err' = ""
    /\ RhsUnchanged

\* one evaluation of the Van Leer limiter
EvalLimiter ==
    /\ stage = "layout" /\ um.kind = "none"
    /\ args.method = "1D-FVM"
    /\ \E theta \in Thetas :
         um' = [kind |-> "limiter", theta |-> theta,
                limiter |-> VanLeer(theta)]
    /\ err' = ""
    /\ RhsUnchanged

\* one evaluation of unit_model by a BatchCryst
EvalBatchRhs ==
    /\ stage = "layout" /\ um.kind = "none"
    /\ args.engine = "BatchCryst"
    /\ \E distr \in (IF args.method = "moments" THEN MuInputs
                     ELSE {VScale(f, R(args.scale)) : f \in CsdInputs}),
          kin \in RhsKin, rad \in Rads, v \in LiquidVols :
         LET nd == Len(distr)
             w_conc == Liquid_1.mass_conc
             ns == Len(w_conc)
             kron == Kronecker(ns, target_ind)
             states == distr \o w_conc \o <<R(v)>>
                       \o (IF Has(states_uo, "temp")
                           THEN <<Liquid_1.temp>> ELSE <<>>)
             e == BatchRhsError(args, states_uo, nd)
         IN  /\ um' = [kind |-> "batch_rhs", states |-> states, nd |-> nd,
                       ns |-> ns, kin |-> kin, rad |-> rad, err |-> e,
                       transf |-> IF e = ""
                                  THEN BatchMaterial(args.method, distr,
                                          w_conc, R(v), kin, rad,
                                          UnitMoms(args.method, distr,
                                                   args.scale),
                                          kron, args.scale).transf
                                  ELSE RZero,
                       balances |-> IF e = ""
                                    THEN BatchRhs(args, states_uo, states,
                                                  nd, ns, kin, rad, kron)
                                    ELSE <<>>]
             /\ err' = e
    /\ RhsUnchanged

\* one evaluation of MSMPR.material_balances: the tank holds the density f,
\* the inlet is a liquid stream or a slurry stream
EvalMSMPRMaterial ==
    /\ stage = "layout" /\ um.kind = "none"
    /\ args.engine = "MSMPR"
    /\ \E f \in CsdInputs, ikind \in {"liquid", "slurry"},
          f_in \in CsdInputs, dc \in {0, 1}, kin \in RhsKin :
         LET distrib == IF args.method = "moments"
                        THEN MomentsOf(f, args.scale)
                        ELSE VScale(f, R(args.scale))
             w_conc == Liquid_1.mass_conc
             kron == Kronecker(Len(w_conc), target_ind)
             moms == UnitMoms(args.method, distrib, args.scale)
             inlet == [kind |-> ikind, num_distrib |-> f_in,
                       mass_conc |-> VAddInt(w_conc, dc),
                       vol_flow |-> R(1)]
             e == MSMPRMaterialError(distrib, inlet)
             phi == RSub(R(1), RMul(R(Kv), moms[2]))
         IN  /\ f_in \in {f, [i \in 1..NumCells |-> RZero]}
             /\ ikind = "liquid" => f_in = [i \in 1..NumCells |-> RZero]
             /\ phi # RZero
             /\ um' = [kind |-> "msmpr_material", f |-> f, inlet |-> inlet,
                       w_conc |-> w_conc, kin |-> kin, err |-> e,
                       out |-> IF e = ""
                               THEN MSMPRMaterial(args.method, distrib,
                                       w_conc, R(2), kin, 0, moms, kron,
                                       args.scale, inlet)
                               ELSE [flow_distrib |-> <<>>,
                                     flow_term |-> <<>>]]
             /\ err' = e
    /\ RhsUnchanged

\* non-negative states at the edge of the state space: densities of the
\* size of eps, an empty liquid phase
EdgeCsds == [1..NumCells -> {RZero, Eps, R(1)}]
EdgeVols == {RZero, R(1)}

\* the divisions of one evaluation of the Batch right-hand side
EvalDenominators ==
    /\ stage = "layout" /\ um.kind = "none"
    /\ args.engine = "BatchCryst"
    /\ \E csd \in EdgeCsds, kin \in RhsKin, vol \in EdgeVols :
         /\ kin.nucl = RZero /\ kin.alpha = R(1)
         /\ um' = [kind |-> "denoms", csd |-> csd, growth |-> kin.growth,
                   vol_liq |-> vol,
                   fvm |-> IF args.method = "1D-FVM"
                           THEN ThetaDenominators(csd, kin.growth)
                           ELSE <<>>,
                   batch |-> BatchMaterialDenominators(vol)]
    /\ err' = ""
    /\ RhsUnchanged

\* the composition basis of an engine (constructor argument basis)
Bases == {"mass_conc", "mass_frac"}

\* BatchCryst.material_balances, from np.append to the return: dliq_dt is
\* assembled (np.append copies dcomp_dt) before dcomp_dt is scaled in
\* place, so the scaling never reaches the returned vector
BatchLiquidDerivs(basis, dcomp_dt, dvol_liq, rho_liq) ==
    LET dliq_dt == dcomp_dt \o <<dvol_liq>>
        scaled == IF basis = "mass_frac"
                  THEN VDiv(dcomp_dt, rho_liq) ELSE dcomp_dt
    IN  dliq_dt

\* SemibatchCryst.material_balances, from np.append to the return: the same
\* order of statements as in the Batch engine
SemibatchLiquidDerivs(basis, dcomp_dt, dvol_dt, rho_liq) ==
    LET dliq_dt == dcomp_dt \o <<dvol_dt>>
        scaled == IF basis = "mass_frac"
                  THEN VDiv(dcomp_dt, rho_liq) ELSE dcomp_dt
    IN  dliq_dt

\* MSMPR.material_balances, from the basis test to the return: dcomp_dt is
\* scaled in place and then concatenated
MSMPRLiquidDerivs(basis, dcomp_dt, rho_liq) ==
    IF basis = "mass_frac" THEN VDiv(dcomp_dt, rho_liq) ELSE dcomp_dt

\* the liquid derivatives the three engines return for one composition
\* derivative (mat: the Batch material balance, no inlet flow)
LiquidDerivs(basis, mat) ==
    [kind |-> "basis", basis |-> basis, dcomp_dt |-> mat.dcomp_dt,
     batch |-> BatchLiquidDerivs(basis, mat.dcomp_dt, mat.dvol_liq,
                                 R(RhoLiquid)),
     semibatch |-> SemibatchLiquidDerivs(basis, mat.dcomp_dt, mat.dvol_liq,
                                         R(RhoLiquid)),
     msmpr |-> MSMPRLiquidDerivs(basis, mat.dcomp_dt, R(RhoLiquid))]

\* one evaluation of the liquid part of material_balances under a basis
EvalBasis ==
    /\ stage = "layout" /\ um.kind = "none"
    /\ args.engine = "BatchCryst"
    /\ \E basis \in Bases,
          distr \in (IF args.method = "moments" THEN MuInputs
                     ELSE {VScale(f, R(args.scale)) : f \in CsdInputs}),
          kin \in RhsKin, v \in LiquidVols :
         /\ args.method = "moments" => MomentsError(distr) = ""
         /\ um' = LiquidDerivs(basis,
                   BatchMaterial(args.method, distr, Liquid_1.mass_conc,
                       R(v), kin, 0,
                       UnitMoms(args.method, distr, args.scale),
                       Kronecker(Len(Liquid_1.mass_conc), target_ind),
                       args.scale))
    /\ err' = ""
    /\ RhsUnchanged

InitRhs ==
    /\ InitCommon
    /\ NewObject
    /\ args \in RhsArgs
    /\ target_ind = 0
    /\ jax_available = TRUE
    /\ Liquid_1 = InitLiquid(1)
    /\ kin_params = <<1, 2>>
    /\ mask_params = NoMask

NextRhs ==
    LayoutNomenclature \/ EvalMoments \/ EvalFvm \/ EvalLimiter
        \/ EvalBatchRhs \/ EvalMSMPRMaterial \/ EvalDenominators
        \/ EvalBasis

SpecRhs == InitRhs /\ [][NextRhs]_vars

\* ------------------------------------------------ sensitivity right-hand side
NumSensStates == 2   \* rows of the jacobians the backends return here
JacEntries == {0, 1}
JacMatrices == [1..NumSensStates -> [1..NumSensStates -> JacEntries]]
JacColumns == [1..NumSensStates -> JacEntries]

\* np.dot(jac_states_vals, sens) + jac_params_vals, one free parameter
SensRhs(jac_states, sens, jac_params) ==
    [i \in 1..Len(jac_states) |->
        jac_states[i][1] * sens[1] + jac_states[i][2] * sens[2]
            + jac_params[i]]

\* set_ode_problem with eval_sens: the callables it stores
JacStatesFn(jac_type) ==
    IF jac_type = "finite_diff" THEN "jac_states_numerical"
    ELSE IF jac_type = "AD" THEN "jac_states_ad"
    ELSE IF jac_type = "analytical" THEN "jac_states"
    ELSE "unset"

JacParamsFn(jac_type) ==
    IF jac_type = "finite_diff" THEN "jac_params_numerical"
    ELSE IF jac_type = "AD" THEN "jac_params_ad"
    ELSE IF jac_type = "analytical" THEN "jac_params"
    ELSE "unset"

\* the error raised by self.jac_params_fn(time, states, params)
JacParamsError(fn, jax, tc) ==
    IF fn = "jac_params_ad" /\ ~jax THEN "NameError"     \* jacfwd undefined
    ELSE IF fn = "jac_params" /\ tc = "None" THEN "TypeError"
    ELSE ""

\* the error raised by self.jac_states_fn(time, states, params,
\* return_only=False)
JacStatesError(fn, tc) ==
    IF fn = "jac_states_ad" THEN "TypeError"   \* no return_only parameter
    ELSE IF fn = "jac_states" /\ tc = "None" THEN "TypeError"
    ELSE ""

\* rhs_sensitivity: the error it raises, if any
RhsSensitivityError(fs, fp, jax, tc) ==
    IF JacParamsError(fp, jax, tc) # "" THEN JacParamsError(fp, jax, tc)
    ELSE JacStatesError(fs, tc)

\* set_ode_problem, "Jacobian callables" of the explicit problem:
\* problem.jacv is assigned under self.method == 'fvm'
JacvInstalled(method, eval_sens, jacv_prod) ==
    ~eval_sens /\ method = "fvm" /\ jacv_prod

\* set_ode_problem, as solve_unit calls it with its jac_v_prod argument
SetOdeProblem ==
    /\ stage = "constructed" /\ um.kind = "none"
    /\ \E eval_sens \in BOOLEAN, jac_v_prod \in BOOLEAN :
         LET e == SetOdeError(eval_sens, args.jac_type)
             installed == eval_sens /\ e = "" /\ args.jac_type # "None"
         IN  /\ um' = [kind |-> "problem", eval_sens |-> eval_sens,
                       jac_v_prod |-> jac_v_prod,
                       jacv |-> JacvInstalled(args.method, eval_sens,
                                              jac_v_prod),
                       t0 |-> ProblemT0(elapsed_time),
                       jac_states_fn |-> IF installed
                                         THEN JacStatesFn(args.jac_type)
                                         ELSE "unset",
                       jac_params_fn |-> IF installed
                                         THEN JacParamsFn(args.jac_type)
                                         ELSE "unset",
                       rhs_sens |-> installed]
             /\ err' = e
    /\ RhsUnchanged

\* one call of rhs_sensitivity by the integrator
RhsSensitivity ==
    /\ um.kind = "problem" /\ um.rhs_sens
    /\ \E js \in JacMatrices, jp \in JacColumns, sens \in JacColumns :
         LET e == RhsSensitivityError(um.jac_states_fn, um.jac_params_fn,
                                      jax_available, args.temp_control)
         IN  /\ um' = [kind |-> "rhs_sens", jac_states |-> js,
                       jac_params |-> jp, sens |-> sens, err |-> e,
                       rhs_sens |-> IF e = "" THEN SensRhs(js, sens, jp)
                                    ELSE <<>>]
             /\ err' = e
    /\ RhsUnchanged

SensArgs ==
    {a \in Args :
        /\ a.engine = "BatchCryst" /\ a.method \in KnownMethods
        /\ a.scale = 1 /\ ~a.isothermal /\ a.adiabatic
        /\ ~a.reset_states /\ a.u_ht = 1}

InitSens ==
    /\ InitCommon
    /\ NewObject
    /\ args \in SensArgs
    /\ target_ind = 0
    /\ jax_available \in (IF args.jac_type = "AD" THEN BOOLEAN ELSE {TRUE})
    /\ Liquid_1 = InitLiquid(1)
    /\ kin_params = <<1, 2>>
    /\ mask_params = NoMask

NextSens == Construct \/ SetOdeProblem \/ RhsSensitivity

SpecSens == InitSens /\ [][NextSens]_vars

\* ------------------------------------ Batch trajectories, method of moments
MaxSteps == 2

\* the integrator advancing the solution by one internal step of length h
\* along the right-hand side it is given; a first-order step, exact for the
\* entries whose derivative is constant over the step (mu_0 and mu_1 under
\* constant rates without nucleation)
StepSize == R(1)
IntegratorStep(y, dydt) ==
    [i \in 1..Len(y) |-> RAdd(y[i], RMul(StepSize, dydt[i]))]

\* kinetics a trajectory runs under: growth or dissolution, with or without
\* nucleation
TrajKin == {k \in RhsKin : Admissible(k)}

TrajArgs ==
    {a \in Args :
        /\ a.engine = "BatchCryst" /\ a.method = "moments"
        /\ a.isothermal /\ a.temp_control = "None" /\ ~a.adiabatic
        /\ ~a.reset_states /\ a.jac_type = "None" /\ a.u_ht = 1}

\* solve_unit handing the initial state to the integrator: the moments are
\* those of the density the solid phase holds
TrajStart ==
    /\ stage = "layout" /\ um.kind = "none"
    /\ \E f \in CsdInputs, kin \in TrajKin, rad \in Rads :
         LET mu == [k \in 1..4 |-> GetMoments(f, k - 1)]
             sol == [Solid_1 EXCEPT !.moments = mu, !.distrib = f]
             y0 == StatesInit(args.method, states_uo, Liquid_1, sol,
                              args.scale)
         IN  um' = [kind |-> "traj", step |-> 0, y |-> y0, nd |-> Len(mu),
                    kin |-> kin, rad |-> rad]
    /\ err' = ""
    /\ RhsUnchanged

\* one internal step of the integrator on unit_model
TrajStep ==
    /\ um.kind = "traj" /\ um.step < MaxSteps
    /\ LET ns == Len(Liquid_1.mass_conc)
           dydt == BatchRhs(args, states_uo, um.y, um.nd, ns, um.kin,
                            um.rad, Kronecker(ns, target_ind))
       IN  um' = [um EXCEPT !.step = um.step + 1,
                            !.y = IntegratorStep(um.y, dydt)]
    /\ err' = ""
    /\ RhsUnchanged

InitTraj ==
    /\ InitCommon
    /\ NewObject
    /\ args \in TrajArgs
    /\ target_ind = 0
    /\ jax_available = TRUE
    /\ \E v \in LiquidVols : Liquid_1 = InitLiquid(v)
    /\ kin_params = <<1, 2>>
    /\ mask_params = NoMask

NextTraj == LayoutNomenclature \/ TrajStart \/ TrajStep

SpecTraj == InitTraj /\ [][NextTraj]_vars

\* -------------------------------- analytical state jacobian, Batch/moments
\* the kinetics the closed form assumes: growth as a power of the
\* supersaturation of the target species, no nucleation
GrowthExps == {1, 2}
GrowthCoefs == {1, 2}
Csat == R(1)         \* KinInstance.get_solubility(temp)
GrowthLaw(conc_tg, kg, g_exp) == RMul(R(kg), RPow(RSub(conc_tg, Csat), g_exp))

\* the moment rows of unit_model as a function of the compositions
MomentRhs(mu, w_conc, tgt, kg, g_exp, vol) ==
    DmuDt(mu, [nucl |-> RZero, growth |-> GrowthLaw(w_conc[tgt + 1], kg, g_exp),
               dissol |-> RZero, alpha |-> R(1)], 0, vol)

\* numerical_jac_central on the composition block: central differences with
\* step dx
JacStep == RHalf
Perturbed(w_conc, j, d) == [i \in 1..Len(w_conc) |-> IF i = j THEN RAdd(w_conc[i], d) ELSE w_conc[i]]

JacStatesNumerical(mu, w_conc, tgt, kg, g_exp, vol) ==
    [r \in 1..Len(mu) |-> [j \in 1..Len(w_conc) |->
        RDiv(RSub(MomentRhs(mu, Perturbed(w_conc, j, JacStep), tgt, kg,
                            g_exp, vol)[r],
                  MomentRhs(mu, Perturbed(w_conc, j, RNeg(JacStep)), tgt, kg,
                            g_exp, vol)[r]),
             RMul(R(2), JacStep))]]

\* BatchCryst.jac_states, rows of the moments and columns of the
\* compositions: db_dconc and dg_dconc are written into column
\* num_distr + target_ind, then column num_distr is multiplied by
\* 1 / (conc_tg - c_sat)
JacStates(mu, w_conc, tgt, kg, g_exp) ==
    LET conc_tg == w_conc[tgt + 1]
        gr == GrowthLaw(conc_tg, kg, g_exp)
        placed == [r \in 1..Len(mu) |-> [j \in 1..Len(w_conc) |->
            IF j # tgt + 1 \/ r = 1 THEN RZero
            ELSE RMul(RMul(RMul(R(r - 1), R(g_exp)), gr), mu[r - 1])]]
    IN  [r \in 1..Len(mu) |-> [j \in 1..Len(w_conc) |->
            IF j = 1 THEN RDiv(placed[r][j], RSub(conc_tg, Csat))
            ELSE placed[r][j]]]

JacConcs == {<<R(a), R(b)>> : a \in 2..3, b \in 2..3}

JacArgs ==
    {a \in Args :
        /\ a.engine = "BatchCryst" /\ a.method = "moments"
        /\ a.jac_type = "analytical" /\ a.temp_control = "law"
        /\ ~a.isothermal /\ ~a.adiabatic /\ ~a.reset_states /\ a.u_ht = 1}

\* jac_states(time, states, params, return_only=False) next to the
\* finite-difference jacobian of the same state
EvalJacStates ==
    /\ stage = "layout" /\ um.kind = "none"
    /\ \E mu \in {m \in MuInputs : Len(m) = 4}, w \in JacConcs,
          kg \in GrowthCoefs, g \in GrowthExps :
         um' = [kind |-> "jac", mu |-> mu, w_conc |-> w, kg |-> kg,
                g_exp |-> g,
                analytical |-> JacStates(mu, w, target_ind, kg, g),
                numerical |-> JacStatesNumerical(mu, w, target_ind, kg, g,
                                                 Liquid_1.vol)]
    /\ err' = ""
    /\ RhsUnchanged

InitJac ==
    /\ InitCommon
    /\ NewObject
    /\ args \in JacArgs
    /\ target_ind \in TargetInds
    /\ jax_available = TRUE
    /\ Liquid_1 = InitLiquid(1)
    /\ kin_params = <<1, 2>>
    /\ mask_params = NoMask

NextJac == LayoutNomenclature \/ EvalJacStates

SpecJac == InitJac /\ [][NextJac]_vars

\* ------------------------------------------------------------ flatten_states
\* np.concatenate / np.vstack of a list of arrays, along the rows
ConcatRows_lastOnly(list, i) == IF list = <<>> THEN <<>> ELSE list[Len(list)]

RECURSIVE ConcatRows(_, _)
ConcatRows(list, i) ==
    IF i > Len(list) THEN <<>> ELSE list[i] \o ConcatRows(list, i + 1)

\* flatten_states: while timeProf is a list the profiles are replaced by
\* their concatenations (np.vstack of an empty list raises ValueError); once
\* timeProf is an array the call does nothing. um keeps what the lists were
\* and how many times the method ran on arrays.
FlattenStates ==
    /\ stage = "constructed"
    /\ IF um.kind = "flat"
       THEN /\ um' = [um EXCEPT !.nflat = 2]
            /\ err' = ""
            /\ UNCHANGED profVars
       ELSE IF distribProf = <<>>
       THEN /\ err' = "ValueError"
            /\ UNCHANGED <<profVars, um>>
       ELSE /\ err' = ""
            /\ distribProf' = ConcatRows(distribProf, 1)
            /\ wConcProf' = ConcatRows(wConcProf, 1)
            /\ tempProf' = ConcatRows(tempProf, 1)
            /\ timeProf' = ConcatRows(timeProf, 1)
            /\ tempProfHt' = IF Len(tempProfHt) > 0
                             THEN ConcatRows(tempProfHt, 1) ELSE tempProfHt
            /\ um' = [kind |-> "flat", nflat |-> 1,
                      time |-> timeProf, distrib |-> distribProf,
                      w_conc |-> wConcProf, temp |-> tempProf]
            /\ UNCHANGED <<elapsed_time, volProf, scale_flag>>
    /\ UNCHANGED <<ctorVars, attachVars, assignVars, phaseVars, kinVars,
                   callVars>>

\* solve_unit while the profiles are lists
SolveOnLists == um.kind = "none" /\ Solve

\* solve_unit once the profiles are arrays: retrieve_results fails on
\* self.timeProf.append after the integration
SolveOnArrays ==
    /\ um.kind = "flat"
    /\ stage = "constructed" /\ Slurry.set /\ KinInstance # "None"
    /\ ncalls < MaxCalls
    /\ ncalls' = ncalls + 1
    /\ err' = "AttributeError"
    /\ call' = [call EXCEPT !.status = "raised"]
    /\ Solid_1' = [Solid_1 EXCEPT !.moments =
                      MomentsAliased(args.method, states_uo, Liquid_1,
                                     Solid_1, args.scale)]
    /\ scale_flag' = FALSE
    /\ UNCHANGED <<elapsed_time, timeProf, distribProf, wConcProf, tempProf,
                   tempProfHt, volProf>>
    /\ UNCHANGED <<ctorVars, attachVars, assignVars, Liquid_1, kinVars,
                   sumRuntime, um>>

FlatArgs ==
    {a \in Args :
        /\ a.engine = "BatchCryst" /\ a.method \in KnownMethods
        /\ ~a.reset_states /\ a.jac_type = "None" /\ a.u_ht = 1
        /\ a.scale = 1
        /\ (a.isothermal => (a.temp_control = "None" /\ ~a.adiabatic))}

InitFlat ==
    /\ InitCommon
    /\ NewObject
    /\ args \in FlatArgs
    /\ target_ind = 0
    /\ mask_params = NoMask
    /\ jax_available = TRUE
    /\ Liquid_1 = InitLiquid(1)
    /\ kin_params = <<1, 2>>

NextFlat ==
    Construct \/ AttachPhases \/ AttachKinetics \/ SolveOnLists
        \/ SolveOnArrays \/ FlattenStates

SpecFlat == InitFlat /\ [][NextFlat]_vars

\* ==================================================================== claims

\* C1: every solve_unit(runtime=r) call that returns started its integration
\* at the elapsed_time left by the previous call (0 for the first call),
\* ended it at that time plus r, and left elapsed_time at the last returned
\* time point, which is the sum of the runtimes of the calls made so far.
C1_ResumesFromElapsedTime ==
    call.status = "returned" =>
        /\ call.t0 = call.prev_elapsed
        /\ call.time[1] = call.prev_elapsed
        /\ Last(call.time) = call.prev_elapsed + call.runtime
        /\ elapsed_time = Last(call.time)
        /\ elapsed_time = sumRuntime
        /\ (ncalls = 1 => call.t0 = 0)

C1_Witness ==
    /\ call.status = "returned"
    /\ call.prev_returned
    /\ call.prev_elapsed > 0
    /\ elapsed_time = call.prev_elapsed + call.runtime

\* C2: the initial state vector assembled by the call that follows a
\* returned call equals the last row of the trajectory that call returned.
C2_InitialStateIsLastRow ==
    (call.built /\ call.prev_returned) => call.y0 = call.prev_last

\* C4: with eval_sens=True the returned sensitivity trajectory of every free
\* parameter has an all-zero first time sample.
C4_ZeroInitialSensitivity ==
    (call.status = "returned" /\ call.eval_sens) =>
        /\ Len(call.sensit) = Len(MergedParams(mask_params.mask, kin_params))
        /\ \A p \in 1..Len(call.sensit) :
             \A j \in 1..Len(call.sensit[p][1]) : call.sensit[p][1][j] = 0

C4_Witness ==
    /\ call.status = "returned"
    /\ call.eval_sens
    /\ call.prev_elapsed > 0
    /\ Len(call.sensit) > 0
    /\ call.p_sol[1][1][1] # 0
    /\ call.sensit[1][2][1] # 0

\* C5: an unrecognized jac_type is rejected when the crystallizer is
\* constructed; no solve_unit call is entered and no integration is run
\* with one.
C5_BadJacTypeRejectedAtConstruction ==
    args.jac_type \notin KnownJacTypes =>
        /\ stage # "constructed"
        /\ ncalls = 0
        /\ call.simulated = 0

\* C6: an unrecognized discretization method is rejected when the
\* crystallizer is constructed; solve_unit never runs with one.
C6_BadMethodRejectedAtConstruction ==
    args.method \notin KnownMethods =>
        /\ stage # "constructed"
        /\ ncalls = 0

\* C7: with jac_type='AD' and no importable JAX, construction fails; there
\* is never a crystallizer with jac_type 'AD' on the plain numpy backend.
C7_MissingJaxFailsFast ==
    /\ (args.jac_type = "AD" /\ ~jax_available) => stage # "constructed"
    /\ ~(stage = "constructed" /\ args.jac_type = "AD"
         /\ np_backend = "numpy")

\* the full parameter vector in the kinetics' own order: free positions hold
\* the supplied values in order, fixed positions the stored values
ExpectedParams(mask, full, supplied) ==
    [i \in 1..Len(mask) |->
        IF mask[i]
        THEN supplied[Cardinality({k \in 1..i : mask[k]})]
        ELSE full[i]]

IsPermutation(perm, n) ==
    /\ Len(perm) = n
    /\ \A v \in 0..(n - 1) : \E i \in 1..n : perm[i] = v

\* C3: for every parameter mask ind_maskpar is a permutation of 0..n-1 and
\* the vector unit_model hands to set_params is the full n-entry parameter
\* vector in the kinetics' order (free positions: the supplied values in
\* order; fixed positions: the stored values).
C3_FullParameterVector ==
    um.kind = "params" =>
        /\ IsPermutation(ind_maskpar, Len(kin_params))
        /\ set_params_arg = ExpectedParams(mask_params.mask, kin_params,
                                           um.params)

AllZero(v) == \A i \in 1..Len(v) : v[i] = RZero

\* crystal mass rate implied by a distribution derivative: rho_s * kv * mu_3
\* of the derivative, in the units of the mass-transfer rate
CrystalMassRate(method, ddistr, scale) ==
    RMul(RMul(R(RhoSolid), R(Kv)),
         IF method = "moments" THEN RMul(ddistr[4], RPow(MicroUnit, 3))
         ELSE RMul(GetMoments(VDiv(ddistr, R(scale)), 3),
                   RPow(MicroUnit, 3)))

\* C11: in every evaluation of the Batch right-hand side with a positive
\* liquid volume, for every species j V_liq*dC_j/dt + C_j*dV_liq/dt equals
\* minus the mass-transfer rate times the target indicator, and the crystal
\* mass rate implied by the distribution derivative equals the mass-transfer
\* rate (total mass is conserved).
C11_BatchMassConserved ==
    (um.kind = "batch_rhs" /\ um.err = "") =>
        LET nd == um.nd
            ns == um.ns
            w == SubVec(um.states, nd + 1, nd + ns)
            vol == um.states[nd + ns + 1]
            ddistr == SubVec(um.balances, 1, nd)
            dcomp == SubVec(um.balances, nd + 1, nd + ns)
            dvol == um.balances[nd + ns + 1]
            kron == Kronecker(ns, target_ind)
        IN  RLt(RZero, vol) =>
              /\ \A j \in 1..ns :
                   RAdd(RMul(vol, dcomp[j]), RMul(w[j], dvol))
                     = RNeg(RMul(um.transf, R(kron[j])))
              /\ CrystalMassRate(args.method, ddistr, args.scale)
                   = um.transf

\* C12: with zero nucleation, growth and dissolution rates the Batch
\* right-hand side returned by unit_model is zero in every block
\* (distribution, composition, volume and temperature when it is a state).
C12_ZeroKineticsZeroRhs ==
    (um.kind = "batch_rhs" /\ um.err = "" /\ um.kin.nucl = RZero
       /\ um.kin.growth = RZero /\ um.kin.dissol = RZero) =>
        /\ Len(um.balances) = Len(um.states)
        /\ AllZero(um.balances)

C12_Witness ==
    /\ um.kind = "batch_rhs" /\ um.err = ""
    /\ um.kin.nucl = RZero /\ um.kin.growth = RZero
    /\ um.kin.dissol = RZero
    /\ Has(states_uo, "temp") /\ args.adiabatic
    /\ Len(um.balances) = um.nd + um.ns + 2
    /\ um.states[1] # RZero

C18_FluxesTelescope ==
    um.kind = "fvm" =>
        LET flux == um.out.flux
            nucl == RMul(RMul(um.kin.nucl, R(args.scale)), um.vol)
            total == RSum([i \in 1..Len(um.out.dcsd_dt) |->
                              RMul(um.out.dcsd_dt[i], R(Dx))], 1)
        IN  /\ Len(flux) = Len(um.csd) + 1
            /\ Len(um.out.dcsd_dt) = Len(um.csd)
            /\ flux[1] = nucl
            /\ Last(flux) = RZero
            /\ total = nucl
            /\ (um.kin.nucl = RZero => total = RZero)

C18_Witness ==
    /\ um.kind = "fvm"
    /\ um.kin.nucl # RZero /\ um.kin.growth # RZero
    /\ um.csd[1] # um.csd[2] /\ um.csd[2] # um.csd[3]
    /\ um.out.flux[2] # RZero /\ um.out.flux[3] # RZero
    /\ um.out.flux[2] # um.out.flux[3]

\* what method_of_moments is to return for mu, B, G (attenuated), D, r0, V
MomentsAsStated ==
    LET mu == um.mu
        gd == RAdd(RMul(um.kin.growth, um.kin.alpha), um.kin.dissol)
    IN  /\ um.err = ""
        /\ Len(um.out.dmu_dt) = Len(mu)
        /\ um.out.dmu_dt[1] = RMul(um.kin.nucl, um.vol)
        /\ \A k \in 1..(Len(mu) - 1) :
             um.out.dmu_dt[k + 1] =
                 RAdd(RMul(RMul(R(k), gd), mu[k]),
                      RMul(um.kin.nucl, R(IPow(um.rad, k))))
        /\ um.out.mass_transf =
             RMul(RMul(R(RhoSolid * Kv),
                       RAdd(RMul(RMul(R(3), gd), mu[3]),
                            RMul(um.kin.nucl, R(IPow(um.rad, 3))))),
                  RPow(MicroUnit, 3))

\* C19 (as stated): for every moment vector of length N >= 1,
\* method_of_moments returns N derivatives, entry 0 equal to B*V and entry k
\* equal to k*(G+D)*mu_(k-1) + B*r0^k, and the mass-transfer rate
\* rho_crystal*k_v*(3*(G+D)*mu_2 + B*r0^3) times the cubed size-unit scale.
C19_MomentsFormulaAnyLength ==
    um.kind = "moments" => MomentsAsStated

\* C19 (amended): the same for every moment vector of length N >= 4.
C19_MomentsFormula ==
    (um.kind = "moments" /\ Len(um.mu) >= 4) => MomentsAsStated

C19_Witness ==
    /\ um.kind = "moments" /\ um.err = ""
    /\ Len(um.mu) = MaxMom
    /\ um.kin.nucl # RZero /\ um.kin.growth # RZero /\ um.rad # 0
    /\ um.out.dmu_dt[3] # RZero
    /\ um.out.mass_transf # RZero


\* C15: when the integrator fails, solve_unit raises after exactly one call
\* into the solver, and elapsed_time and the accumulated profiles (timeProf,
\* distribProf, wConcProf, tempProf) are what they were before the call.
C15_IntegratorFailurePropagates ==
    [][(ncalls' = ncalls + 1 /\ err' = "CVodeError")
         => (/\ call'.status = "raised"
             /\ call'.simulated = 1
             /\ UNCHANGED <<elapsed_time, timeProf, distribProf, wConcProf,
                            tempProf>>)]_vars

C15_Witness ==
    /\ err = "CVodeError"
    /\ call.status = "raised"
    /\ call.prev_returned
    /\ call.simulated = 1
    /\ elapsed_time > 0
    /\ Len(timeProf) = 1 /\ Len(distribProf) = 1

\* C17: after a returned solve_unit call of a BatchCryst, each recorded
\* block is read from the trajectory columns of that block in the state
\* layout: distribution from the first num_distr columns, composition from
\* the next num_species, volume from the next one, the tank temperature from
\* the temperature column when temperature is a state, and no jacket
\* temperature profile is recorded when the layout holds no jacket state.
C17_BlocksReadFromTheirColumns ==
    call.status = "returned" =>
        LET nd == IF args.method = "moments" THEN Len(Solid_1.moments)
                  ELSE Len(Solid_1.distrib)
            ns == Len(Liquid_1.mass_conc)
            states == call.states
        IN  /\ \A r \in 1..Len(states) :
                 VScale(Last(distribProf)[r], R(args.scale))
                     = SubVec(states[r], 1, nd)
            /\ Last(wConcProf) =
                 [r \in 1..Len(states) |-> SubVec(states[r], nd + 1,
                                                  nd + ns)]
            /\ volProf = Column(states, nd + ns + 1)
            /\ Has(states_uo, "temp") =>
                 Last(tempProf) = Column(states, nd + ns + 2)
            /\ ~Has(states_uo, "temp_ht") => tempProfHt = <<>>


\* C20: for each of the backends 'finite_diff', 'AD' and 'analytical',
\* after set_ode_problem with eval_sens=True, rhs_sensitivity evaluates
\* without error and returns J_states*sens + J_params with the jacobians of
\* the selected backend.
C20_BackendsInterchangeable ==
    /\ (um.kind = "problem" /\ um.eval_sens
          /\ args.jac_type \in {"finite_diff", "AD", "analytical"}) =>
         /\ um.rhs_sens
         /\ um.jac_states_fn = JacStatesFn(args.jac_type)
         /\ um.jac_params_fn = JacParamsFn(args.jac_type)
    /\ um.kind = "rhs_sens" =>
         /\ um.err = ""
         /\ um.rhs_sens =
              [i \in 1..NumSensStates |->
                  um.jac_states[i][1] * um.sens[1]
                    + um.jac_states[i][2] * um.sens[2] + um.jac_params[i]]


\* C16: along a Batch trajectory started from a non-negative distribution,
\* every distribution entry stays >= -epsilon, for growth or dissolution,
\* with or without nucleation.
C16_DistributionNonNegative ==
    um.kind = "traj" =>
        \A i \in 1..um.nd : RLe(RNeg(Eps), um.y[i])


\* C21: for the Batch/moment configuration and every target species index,
\* the analytical jacobian of the moment equations with respect to the
\* compositions equals the finite-difference jacobian, the derivatives
\* being placed and scaled in the target species' column.
C21_AnalyticalMatchesNumerical ==
    um.kind = "jac" => um.analytical = um.numerical


\* C22: for every non-negative state, each denominator of fvm_method and of
\* the Batch material balance is at least machine epsilon in magnitude.
C22_DenominatorsBoundedAwayFromZero ==
    um.kind = "denoms" =>
        /\ \A j \in 1..Len(um.fvm) : RLe(Eps, RAbs(um.fvm[j]))
        /\ \A j \in 1..Len(um.batch) : RLe(Eps, RAbs(um.batch[j]))


\* C23: the distribution reported for the initial time sample of a call
\* equals the physical distribution the solid phase held when solve_unit
\* assembled the initial state, for every scale factor and both methods.
C23_ScalingRoundTrips ==
    [][(ncalls' = ncalls + 1 /\ call'.status = "returned") =>
          distribProf'[Len(distribProf')][1]
              = (IF args.method = "moments" THEN Solid_1.moments
                 ELSE Solid_1.distrib)]_vars


\* C24: after k >= 1 successful calls flatten_states leaves timeProf,
\* distribProf, wConcProf and tempProf as the concatenations, in call order,
\* of the k calls' results, with the same number of rows and non-decreasing
\* time; a second flatten_states changes none of them.
C24_FlattenConcatenatesOnce ==
    um.kind = "flat" =>
        /\ Len(um.time) >= 1
        /\ timeProf = ConcatRows(um.time, 1)
        /\ distribProf = ConcatRows(um.distrib, 1)
        /\ wConcProf = ConcatRows(um.w_conc, 1)
        /\ tempProf = ConcatRows(um.temp, 1)
        /\ \A k \in 1..Len(um.time) :
              /\ timeProf[2 * k - 1] = um.time[k][1]
              /\ distribProf[2 * k] = um.distrib[k][2]
        /\ Len(distribProf) = Len(timeProf)
        /\ Len(wConcProf) = Len(timeProf)
        /\ Len(tempProf) = Len(timeProf)
        /\ \A i \in 1..(Len(timeProf) - 1) : timeProf[i] <= timeProf[i + 1]

C24_Witness ==
    um.kind = "flat" /\ um.nflat = 2 /\ Len(um.time) = 2


\* C25: constructing MSMPR or SemibatchCryst with a target index and
\* otherwise default arguments completes without error, with is_continuous
\* True and oper_mode 'Continuous' (MSMPR) or 'Semibatch' (SemibatchCryst).
C25_ContinuousEnginesConstruct ==
    (/\ stage # "new"
     /\ args.engine \in {"MSMPR", "SemibatchCryst"}
     /\ args = [DefaultArgs EXCEPT !.engine = args.engine]) =>
        /\ stage = "constructed"
        /\ err = ""
        /\ IsContinuous(args.engine, stage) = "True"
        /\ OperMode(args.engine, stage)
               = (IF args.engine = "MSMPR" THEN "Continuous"
                  ELSE "Semibatch")


\* C26: after k calls on a Batch crystallizer the liquid-volume profile
\* covers all k calls: once flattened it has as many rows as timeProf.
C26_VolumeProfileCoversAllCalls ==
    um.kind = "flat" => Len(volProf) = Len(timeProf)


\* C27: with reset_states = True every solve_unit call restores the initial
\* condition and then integrates from it: the call returns a trajectory
\* that starts at time 0 from the phases' original values, and the profiles
\* hold that call alone.
C27_ResetThenIntegrate ==
    [][(ncalls' = ncalls + 1 /\ args.reset_states
            /\ args.method \in KnownMethods) =>
          /\ call'.status = "returned"
          /\ call'.t0 = 0
          /\ call'.y0 = StatesInit(args.method, states_uo, InitLiquid(1),
                                   InitSolid, args.scale)
                \/ call'.y0 = StatesInit(args.method, states_uo,
                                         InitLiquid(2), InitSolid, args.scale)
          /\ Len(timeProf') = 1]_vars


\* C28: with basis = 'mass_frac' the composition derivatives returned by the
\* Batch and the Semibatch material balances are the mass-concentration
\* derivatives divided by the liquid density, as those of the MSMPR are
C28_MassFracDividesByDensity ==
    (um.kind = "basis" /\ um.basis = "mass_frac") =>
        /\ SubSeq(um.batch, 1, Len(um.dcomp_dt))
               = VDiv(um.dcomp_dt, R(RhoLiquid))
        /\ SubSeq(um.semibatch, 1, Len(um.dcomp_dt))
               = VDiv(um.dcomp_dt, R(RhoLiquid))
        /\ um.msmpr = VDiv(um.dcomp_dt, R(RhoLiquid))


\* C29: a problem built without sensitivities for the method '1D-FVM' with
\* jac_v_prod = True carries the Jacobian-vector product callable
\* (problem.jacv); with the method of moments or with jac_v_prod = False it
\* does not
C29_JacvInstalledForFvm ==
    (um.kind = "problem" /\ ~um.eval_sens) =>
        (um.jacv <=> (args.method = "1D-FVM" /\ um.jac_v_prod))


\* ------------------------------------------- Connections.Graph, the flowsheet
NumUnits == 3
MaxConns == 3
Units == 1..NumUnits

\* connection lists without a cycle: some ranking of the units increases
\* along every connection
Acyclic(conns) ==
    \E rank \in [Units -> 1..NumUnits] :
        \A k \in 1..Len(conns) :
            rank[conns[k].source_uo] < rank[conns[k].destination_uo]

ConnectionLists ==
    {conns \in UNION {[1..n -> [source_uo : Units, destination_uo : Units]] :
                         n \in 1..MaxConns} :
        /\ Acyclic(conns)
        /\ \A i, j \in 1..Len(conns) : conns[i] = conns[j] => i = j}

InSeq(x, seq) == \E k \in 1..Len(seq) : seq[k] = x

\* Graph.get_graph after the first k connections: the dictionary as its
\* keys in insertion order and the list stored under each key
RECURSIVE GetGraph(_, _)
GetGraph(conns, k) ==
    IF k = 0
    THEN [keys |-> <<>>, adj |-> [u \in Units |-> <<>>]]
    ELSE LET g == GetGraph(conns, k - 1)
             conn == conns[k]
             src == conn.source_uo
             dst == conn.destination_uo
             withSrc ==
                 IF InSeq(src, g.keys)
                 THEN [g EXCEPT !.adj[src] = Append(@, dst)]
                 ELSE [keys |-> Append(g.keys, src),
                       adj |-> [g.adj EXCEPT ![src] = <<dst>>]]
         IN  \* self.graph[conn.destination_uo] = []
             [keys |-> IF InSeq(dst, withSrc.keys) THEN withSrc.keys
                       ELSE Append(withSrc.keys, dst),
              adj |-> [withSrc.adj EXCEPT ![dst] = <<>>]]

\* __topologicalSortUtil(v, visited, stack), and its loop over
\* self.graph[v] from position i on
RECURSIVE TopologicalSortUtil(_, _, _)
RECURSIVE VisitAdjacent(_, _, _, _)
VisitAdjacent(g, v, i, vs) ==
    IF i > Len(g.adj[v]) THEN vs
    ELSE LET w == g.adj[v][i]
         IN  VisitAdjacent(g, v, i + 1,
                 IF w \in vs.visited THEN vs
                 ELSE TopologicalSortUtil(g, w, vs))

TopologicalSortUtil(g, v, vs) ==
    LET after == VisitAdjacent(g, v, 1,
                     [vs EXCEPT !.visited = @ \cup {v}])
    IN  [after EXCEPT !.stack = <<v>> \o @]

\* topologicalSort: the loop over self.vertices from position i on
RECURSIVE TopologicalSort(_, _, _)
TopologicalSort(g, i, vs) ==
    IF i > Len(g.keys) THEN vs.stack
    ELSE TopologicalSort(g, i + 1,
             IF g.keys[i] \in vs.visited THEN vs
             ELSE TopologicalSortUtil(g, g.keys[i], vs))

\* Graph(connections)
NewGraph ==
    /\ um.kind = "none"
    /\ \E conns \in ConnectionLists :
         LET g == GetGraph(conns, Len(conns))
         IN  um' = [kind |-> "graph", connections |-> conns,
                    graph |-> g.adj, vertices |-> g.keys,
                    num_vert |-> Len(g.keys)]
    /\ err' = ""
    /\ RhsUnchanged

\* graph.topologicalSort()
SortGraph ==
    /\ um.kind = "graph"
    /\ um' = [kind |-> "sorted", connections |-> um.connections,
              graph |-> um.graph, vertices |-> um.vertices,
              stack |-> TopologicalSort(
                            [keys |-> um.vertices, adj |-> um.graph], 1,
                            [visited |-> {}, stack |-> <<>>])]
    /\ err' = ""
    /\ RhsUnchanged

InitGraph ==
    /\ InitCommon
    /\ NewObject
    /\ args = DefaultArgs
    /\ target_ind = 0
    /\ jax_available = TRUE
    /\ Liquid_1 = InitLiquid(1)
    /\ kin_params = <<1, 2>>
    /\ mask_params = NoMask

NextGraph == NewGraph \/ SortGraph

SpecGraph == InitGraph /\ [][NextGraph]_vars

\* position of a unit in a sorted list (0 when absent)
PositionIn(stack, u) ==
    IF InSeq(u, stack) THEN CHOOSE k \in 1..Len(stack) : stack[k] = u ELSE 0

\* C30: the graph holds every connection as an edge from its source to its
\* destination, and the topological order lists every unit of the
\* connections exactly once with each source before its destination
C30_TopologicalOrderRespectsConnections ==
    um.kind = "sorted" =>
        LET conns == um.connections
            used == {conns[k].source_uo : k \in 1..Len(conns)}
                    \cup {conns[k].destination_uo : k \in 1..Len(conns)}
        IN  /\ \A k \in 1..Len(conns) :
                   InSeq(conns[k].destination_uo,
                         um.graph[conns[k].source_uo])
            /\ Len(um.stack) = Cardinality(used)
            /\ \A u \in used : InSeq(u, um.stack)
            /\ \A k \in 1..Len(conns) :
                   PositionIn(um.stack, conns[k].source_uo)
                       < PositionIn(um.stack, conns[k].destination_uo)

====
